---- MODULE Spec2Model ----
(***************************************************************************)
(* Model of pygame_utils.tween (lerp, get_tween, Tween, Tweens,           *)
(* TweenGroup) and of pygame_utils.events (Events, CallbackList).          *)
(*                                                                         *)
(* Time is the value of now(), an integer number of milliseconds.  A       *)
(* tween's duration is kept in the same unit (props.duration * 1000), and  *)
(* the elapsed fraction self.time is kept as its numerator over that       *)
(* duration, so that time = duration means self.time == 1.                 *)
(*                                                                         *)
(* Operations are operators from a "world" record to a world record; the   *)
(* world gathers the objects an operation can reach:                       *)
(*   now    the clock value read by now()                                  *)
(*   tw     tween id -> the fields of that Tween                           *)
(*   ls     Events object -> its listeners dict (object 0 is a stand-alone *)
(*          Events, object i > 0 is Tween i's self.events)                 *)
(*   calls  callback name -> number of invocations so far, for the         *)
(*          callbacks that keep a tally (Tallied)                          *)
(*   log    the invocations made by the operation in progress, in order    *)
(*   fired  the tweens_fired set of the TweenGroup.on closure              *)
(*   group  the TweenGroup's list of tweens                                *)
(*   oracle the values id(kwargs) takes in the coming relay invocations    *)
(*   frames the CallbackList iterations in progress (innermost last)       *)
(*   legs   tween id -> number of done() calls so far                      *)
(*   frac   tween id -> the fraction self.time computed by update() in the *)
(*          operation in progress, -1 when none was computed               *)
(*   exc    whether an exception raised by a callback is propagating: the  *)
(*          code has no try/except, so every statement that would follow   *)
(*          is skipped, up to the caller of the operation                  *)
(***************************************************************************)
EXTENDS Integers, Sequences, FiniteSets, TLC

\* ---------------------------------------------------------------- bounds
MaxClock == 4
MaxCalls == 3
MaxOnce == 2
MaxTweens == 3
MaxGroup == 2
NumAddr == 3

EventNames == {"update", "complete"}

\* ---------------------------------------------------------------- helpers
Max(a, b) == IF a >= b THEN a ELSE b

Min(a, b) == IF a <= b THEN a ELSE b

\* int(n / d) for d > 0: Python's int() drops the fractional part
Trunc(n, d) == IF n >= 0 THEN n \div d ELSE -((-n) \div d)

RECURSIVE RemoveFirst(_, _)
RemoveFirst(s, x) ==
    IF s = <<>> THEN <<>>
    ELSE IF Head(s) = x THEN Tail(s)
    ELSE <<Head(s)>> \o RemoveFirst(Tail(s), x)

InSeq(s, x) == \E k \in 1..Len(s) : s[k] = x

EmptyDict == <<>>

DictPop(d, k) == [e \in (DOMAIN d) \ {k} |-> d[e]]

\* dict.get(k, []) on a dict of lists
Listeners(d, k) == IF k \in DOMAIN d THEN d[k] ELSE <<>>

DictSet(d, k, v) == [e \in (DOMAIN d) \cup {k} |-> IF e = k THEN v ELSE d[e]]

\* callbacks are data: a plain function that counts its invocations, the
\* once_callback closure of Events.once, or the on_tween_fire closure
PlainCb(name) == [kind |-> "plain", id |-> name, n |-> 0]

OnceCb(name, k) == [kind |-> "once", id |-> name, n |-> k]

RelayCb(name) == [kind |-> "relay", id |-> name, n |-> 0]

\* ---------------------------------------------------------------- lerp
\* the int branch with the floor division "//" in place of int()
lerp_floor(a, b, num, den) == a + ((b - a) * num) \div den

\* the int branch of lerp, at the fraction num / den
lerp(a, b, num, den) == a + Trunc((b - a) * num, den)

\* EasingFunctions.linear(t, 0, 1, 1) = 1 * t / 1 + 0, at t = num / den
linear(num) == num

\* EasingFunctions.ease_in_quad(t, 0, 1, 1) = t * t, at t = num / den, as
\* the pair <<numerator, denominator>>
ease_in_quad(num, den) == <<num * num, den * den>>

\* EasingFunctions.ease_out_quad(t, 0, 1, 1) = -1 * t * (t - 2)
ease_out_quad(num, den) == <<num * (2 * den - num), den * den>>

\* the curves of tween_functions_lookup that are modelled, by name
tween_functions_lookup ==
    [name \in {"linear", "easeInQuad", "easeOutQuad"} |->
        CASE name = "linear" -> "linear"
          [] name = "easeInQuad" -> "ease_in_quad"
          [] name = "easeOutQuad" -> "ease_out_quad"]

\* get_tween whose fallback is the quadratic ease-in
get_tween_fallback_quad(name) ==
    IF name \in DOMAIN tween_functions_lookup
    THEN tween_functions_lookup[name]
    ELSE tween_functions_lookup["easeInQuad"]

get_tween(name) ==
    IF name \in DOMAIN tween_functions_lookup
    THEN tween_functions_lookup[name]
    ELSE tween_functions_lookup["linear"]

\* easing_func(tween_time) for the curve get_tween returned, at
\* tween_time = num / den, as the pair <<numerator, denominator>>
easing_func(curve, num, den) ==
    CASE curve = "linear" -> <<linear(num), den>>
      [] curve = "ease_in_quad" -> ease_in_quad(num, den)
      [] curve = "ease_out_quad" -> ease_out_quad(num, den)

\* ---------------------------------------------------------------- Python values
\* the arguments of lerp are Python values: a value is the pair of its
\* type() and its content
PyInt(n) == <<"int", n>>

PyFloat(k) == <<"float", k>>

PyList(items) == <<"list", items>>

PyTuple(items) == <<"tuple", items>>

\* a str, as the sequence of its characters
PyStr(chars) == <<"str", chars>>

PyNone == <<"NoneType", 0>>

TypeOf(x) == x[1]

ValueOf(x) == x[2]

\* A float is a binary floating-point number: a significand of MantBits
\* bits times a power of two.  The model counts floats in units of the
\* smallest spacing, so a float is an integer k whose magnitude is
\* m * 2^e with m < 2^MantBits, and every arithmetic operation rounds its
\* exact result to the nearest such number, ties to the even significand.
MantBits == 3

\* n / d (n >= 0, d > 0) rounded to the nearest integer, ties to even
RoundHalfEven(n, d) ==
    LET q == n \div d
        r == n % d
    IN IF 2 * r < d THEN q
       ELSE IF 2 * r > d THEN q + 1
       ELSE IF q % 2 = 0 THEN q ELSE q + 1

\* the spacing of the floats around n / d (n >= 0, d > 0)
RECURSIVE Spacing(_, _, _)
Spacing(n, d, e) ==
    IF n < (2 ^ MantBits) * d * e THEN e ELSE Spacing(n, d, 2 * e)

\* the float nearest to the exact result n / d (d > 0)
FRound(n, d) ==
    LET mag == IF n < 0 THEN -n ELSE n
        e == Spacing(mag, d, 1)
        m == RoundHalfEven(mag, d * e) * e
    IN IF n < 0 THEN -m ELSE m

\* float - float, float * fraction and float + float
fsub(x, y) == FRound(x - y, 1)

fmul(x, num, den) == FRound(x * num, den)

fadd(x, y) == FRound(x + y, 1)

\* s[:pos] of a sequence s
SliceTo(s, pos) ==
    IF pos >= 0 THEN SubSeq(s, 1, Min(pos, Len(s)))
    ELSE SubSeq(s, 1, Max(0, Len(s) + pos))

\* lerp on Python values, at the fraction value = <<num, den>>
RECURSIVE Lerp(_, _, _)
Lerp(a, b, value) ==
    LET t == TypeOf(a)
        x == ValueOf(a)
        y == ValueOf(b)
    IN CASE t = "list" ->
               PyList([k \in 1..Min(Len(x), Len(y)) |-> Lerp(x[k], y[k], value)])
         [] t = "tuple" ->
               PyTuple([k \in 1..Min(Len(x), Len(y)) |-> Lerp(x[k], y[k], value)])
         [] t = "int" -> PyInt(lerp(x, y, value[1], value[2]))
         [] t = "float" -> PyFloat(fadd(x, fmul(fsub(y, x), value[1], value[2])))
         [] t = "str" ->
               LET alen == Len(x)
                   blen == Len(y)
                   diff == blen - alen
                   pos == Trunc(diff * value[1], value[2])
               IN PyStr(SliceTo(y, pos))
         [] OTHER -> b

\* ---------------------------------------------------------------- Events
\* a mutation of the list object held at listeners[ev] of object obj is seen
\* by every iteration in progress over that same object
SyncFrames(frames, obj, ev, lst) ==
    [k \in 1..Len(frames) |->
        IF frames[k].live /\ frames[k].obj = obj /\ frames[k].ev = ev
        THEN [frames[k] EXCEPT !.lst = lst] ELSE frames[k]]

\* the dict no longer holds the list object(s) these iterations run over
DetachFrames(frames, obj, evs) ==
    [k \in 1..Len(frames) |->
        IF frames[k].obj = obj /\ frames[k].ev \in evs
        THEN [frames[k] EXCEPT !.live = FALSE] ELSE frames[k]]

EvOn(w, obj, ev, cb) ==
    LET d == w.ls[obj]
        old == IF ev \in DOMAIN d THEN d[ev] ELSE <<>>
        new == Append(old, cb)
    IN [w EXCEPT !.ls[obj] = DictSet(d, ev, new),
                 !.frames = IF ev \in DOMAIN d
                            THEN SyncFrames(w.frames, obj, ev, new)
                            ELSE w.frames]

EvReset_update_only(w, obj) ==
    [w EXCEPT !.ls[obj] = [e \in DOMAIN @ \ {"update"} |-> @[e]],
              !.frames = DetachFrames(w.frames, obj, {"update"})]

EvReset(w, obj) ==
    [w EXCEPT !.ls[obj] = EmptyDict,
              !.frames = DetachFrames(w.frames, obj, EventNames)]

EvOff_whole_event(w, obj, ev, cb) ==
    IF ev \notin DOMAIN w.ls[obj] THEN w
    ELSE [w EXCEPT !.ls[obj] = DictPop(w.ls[obj], ev),
                   !.frames = DetachFrames(w.frames, obj, {ev})]

\* off(event_name, callback) with both arguments given
EvOff(w, obj, ev, cb) ==
    LET d == w.ls[obj] IN
    IF ev \notin DOMAIN d THEN w
    ELSE LET new == RemoveFirst(d[ev], cb)
             fr == SyncFrames(w.frames, obj, ev, new)
         IN IF Len(new) = 0
            THEN [w EXCEPT !.ls[obj] = DictPop(d, ev),
                           !.frames = DetachFrames(fr, obj, {ev})]
            ELSE [w EXCEPT !.ls[obj] = DictSet(d, ev, new), !.frames = fr]

EvOffEvent_all_events(w, obj, ev) == EvReset(w, obj)

\* off(event_name): every listener of the event
EvOffEvent(w, obj, ev) ==
    IF ev \notin DOMAIN w.ls[obj] THEN w
    ELSE [w EXCEPT !.ls[obj] = DictPop(w.ls[obj], ev),
                   !.frames = DetachFrames(w.frames, obj, {ev})]

\* the callbacks that count their invocations; the others only show in
\* the log of the operation that invoked them
Tallied == {"complete_callback", "group_cb", "c", "r"}

\* the callbacks that raise an exception when they are invoked
Raising == {"boom"}

\* the callbacks that, the first time they are invoked, emit the event
\* they were invoked for once more from inside their body
Reentrant == {"r"}

\* the callbacks that read is_completed and is_running of the tween that
\* emitted the event; what they read is kept in their log entry
Inspecting == {"look"}

\* the callbacks that call stop() on the tween that emitted the event
Stopping == {"halt"}

RECURSIVE trigger(_, _, _, _)

RECURSIVE stop(_, _)

\* the call of a plain callback
CallPlain(w, name, obj, ev, arg) ==
    LET entry == [cb |-> name, obj |-> obj, ev |-> ev, arg |-> arg]
        seen == [cb |-> name, obj |-> obj, ev |-> ev, arg |-> arg,
                 is_completed |-> w.tw[obj].is_completed,
                 is_running |-> w.tw[obj].is_running]
        w1 == [w EXCEPT !.calls[name] = IF name \in Tallied THEN @ + 1 ELSE @,
                        !.log = Append(@, IF name \in Inspecting THEN seen
                                          ELSE entry),
                        !.exc = @ \/ name \in Raising]
    IN IF name \in Reentrant /\ w.calls[name] = 0
       THEN trigger(w1, obj, ev, arg)
       ELSE IF name \in Stopping THEN stop(w1, obj)
       ELSE w1

\* on_tween_fire(*kwargs) of TweenGroup.on
CallRelay(w, name, obj, ev, arg) ==
    LET addr == Head(w.oracle)
        w1 == [w EXCEPT !.fired = @ \cup {addr}, !.oracle = Tail(@),
                        !.log = Append(@, [cb |-> "on_tween_fire", obj |-> obj,
                                           ev |-> ev, arg |-> arg])]
    IN IF Cardinality(w1.fired) = Len(w1.group)
       THEN CallPlain(w1, name, obj, ev, arg)
       ELSE w1

\* once_callback(*args, **kwargs) of Events.once
CallOnce_callback_first(w, cb, obj, ev, arg) ==
    EvOff(CallPlain([w EXCEPT !.ran[cb.n] = @ + 1], cb.id, obj, ev, arg),
          obj, ev, cb)

CallOnce(w, cb, obj, ev, arg) ==
    CallPlain(EvOff([w EXCEPT !.ran[cb.n] = @ + 1], obj, ev, cb), cb.id, obj,
              ev, arg)

Invoke(w, cb, obj, ev, arg) ==
    IF cb.kind = "once" THEN CallOnce(w, cb, obj, ev, arg)
    ELSE IF cb.kind = "relay" THEN CallRelay(w, cb.id, obj, ev, arg)
    ELSE CallPlain(w, cb.id, obj, ev, arg)

\* CallbackList.fire: "for listener in self" reads self[i] for i = 0, 1, ...
\* while i < len(self), on the list as it is at that moment; an exception
\* raised by a listener ends the loop
RECURSIVE FireLoop(_)
FireLoop(w) ==
    LET top == Len(w.frames)
        f == w.frames[top]
    IN IF w.exc \/ f.i >= Len(f.lst)
       THEN [w EXCEPT !.frames = SubSeq(@, 1, top - 1)]
       ELSE FireLoop(Invoke([w EXCEPT !.frames[top].i = @ + 1],
                            f.lst[f.i + 1], f.obj, f.ev, f.arg))

fire(w, obj, ev, arg) ==
    FireLoop([w EXCEPT !.frames = Append(@, [obj |-> obj, ev |-> ev, arg |-> arg,
                                             lst |-> w.ls[obj][ev], live |-> TRUE,
                                             i |-> 0])])

trigger(w, obj, ev, arg) ==
    IF ev \notin DOMAIN w.ls[obj] THEN w ELSE fire(w, obj, ev, arg)

\* ---------------------------------------------------------------- Tween
reset(w, i) ==
    [w EXCEPT !.tw[i].start_time = w.now,
              !.tw[i].time = 0,
              !.tw[i].is_paused = FALSE,
              !.tw[i].pause_duration = 0,
              !.tw[i].paused_at = 0,
              !.tw[i].is_running = FALSE,
              !.tw[i].is_completed = FALSE]

start(w, i) ==
    [w EXCEPT !.tw[i].is_running = TRUE, !.tw[i].start_time = w.now]

\* stop() that clears the subscriptions only of a running tween
stop_only_running(w, i) ==
    IF w.tw[i].is_running
    THEN EvReset([w EXCEPT !.tw[i].is_running = FALSE], i)
    ELSE w

stop(w, i) ==
    EvReset(IF w.tw[i].is_running THEN [w EXCEPT !.tw[i].is_running = FALSE] ELSE w, i)

\* restart() that also starts the repeat count anew
restart_recounts(w, i) ==
    LET w1 == reset([w EXCEPT !.tw[i].count = 0], i)
        t == w1.tw[i]
    IN start([w1 EXCEPT !.tw[i].value = IF t.direction = 1 THEN t.props.from_value
                                        ELSE t.props.to_value], i)

restart(w, i) ==
    LET w1 == reset(w, i)
        t == w1.tw[i]
    IN start([w1 EXCEPT !.tw[i].value = IF t.direction = 1 THEN t.props.from_value
                                        ELSE t.props.to_value], i)

\* pause() that records the pause timestamp again on every call
pause_again(w, i) ==
    [w EXCEPT !.tw[i].is_paused = TRUE, !.tw[i].paused_at = w.now]

pause(w, i) ==
    IF ~w.tw[i].is_paused
    THEN [w EXCEPT !.tw[i].is_paused = TRUE, !.tw[i].paused_at = w.now]
    ELSE w

\* unpause() that forgets the pause window that just closed
unpause_forgets(w, i) ==
    IF w.tw[i].is_paused
    THEN [w EXCEPT !.tw[i].is_paused = FALSE, !.tw[i].paused_at = 0]
    ELSE w

unpause(w, i) ==
    IF w.tw[i].is_paused
    THEN [w EXCEPT !.tw[i].is_paused = FALSE,
                   !.tw[i].pause_duration = @ + (w.now - w.tw[i].paused_at),
                   !.tw[i].paused_at = 0]
    ELSE w

flip(w, i) == [w EXCEPT !.tw[i].direction = -1 * @]

\* complete() that marks the tween completed before it triggers the events
complete_marks_first(w, i) ==
    LET w0 == [w EXCEPT !.tw[i].is_completed = TRUE]
        w1 == trigger(w0, i, "update", w0.tw[i].value)
        w2 == IF w1.exc THEN w1 ELSE trigger(w1, i, "complete", w1.tw[i].value)
    IN IF w2.exc THEN w2 ELSE stop(w2, i)

\* complete() that does not mark the tween completed
complete_unmarked(w, i) ==
    LET w1 == trigger(w, i, "update", w.tw[i].value)
        w2 == IF w1.exc THEN w1 ELSE trigger(w1, i, "complete", w1.tw[i].value)
    IN IF w2.exc THEN w2 ELSE stop(w2, i)

complete(w, i) ==
    LET w1 == trigger(w, i, "update", w.tw[i].value)
        w2 == IF w1.exc THEN w1 ELSE trigger(w1, i, "complete", w1.tw[i].value)
    IN IF w2.exc THEN w2 ELSE stop([w2 EXCEPT !.tw[i].is_completed = TRUE], i)

\* the "Handle repeat" part of done() without the case repeat == -1
doneRepeat_counted_only(w, i) ==
    LET w1 == [w EXCEPT !.tw[i].count = @ + 1]
        t == w1.tw[i]
    IN IF t.props.repeat = 0 THEN complete(w1, i)
       ELSE IF t.count < t.props.repeat THEN restart(w1, i)
       ELSE complete(w1, i)

\* the "Handle repeat" part of done() that runs the cycle once more than
\* repeat says
doneRepeat_one_more(w, i) ==
    LET w1 == [w EXCEPT !.tw[i].count = @ + 1]
        t == w1.tw[i]
    IN IF t.props.repeat = 0 THEN complete(w1, i)
       ELSE IF t.props.repeat = -1 THEN restart(w1, i)
       ELSE IF t.count <= t.props.repeat THEN restart(w1, i)
       ELSE complete(w1, i)

\* the "Handle repeat" part of done()
doneRepeat(w, i) ==
    LET w1 == [w EXCEPT !.tw[i].count = @ + 1]
        t == w1.tw[i]
    IN IF t.props.repeat = 0 THEN complete(w1, i)
       ELSE IF t.props.repeat = -1 THEN restart(w1, i)
       ELSE IF t.count < t.props.repeat THEN restart(w1, i)
       ELSE complete(w1, i)

\* done() whose forward leg counts as a completed ping-pong
done_forward_counts(w, i) ==
    LET w0 == [w EXCEPT !.tw[i].value = w.tw[i].props.to_value,
                        !.legs[i] = @ + 1]
        t == w0.tw[i]
    IN IF t.props.pingpong # 0
       THEN LET w1 == [w0 EXCEPT !.tw[i].pingpong = @ + 1]
                p == w1.tw[i]
            IN IF t.direction = 1 \/ p.pingpong < p.props.pingpong
                  \/ p.props.pingpong = -1
               THEN restart(flip(w1, i), i)
               ELSE doneRepeat(
                      [flip([w1 EXCEPT !.tw[i].value = p.props.from_value], i)
                          EXCEPT !.tw[i].pingpong = 0], i)
       ELSE doneRepeat(w0, i)

\* done() that leaves value at to_value when the ping-pong is exhausted
done_no_snap_back(w, i) ==
    LET w0 == [w EXCEPT !.tw[i].value = w.tw[i].props.to_value,
                        !.legs[i] = @ + 1]
        t == w0.tw[i]
    IN IF t.props.pingpong # 0
       THEN IF t.direction = 1
            THEN restart(flip(w0, i), i)
            ELSE LET w1 == [w0 EXCEPT !.tw[i].pingpong = @ + 1]
                     p == w1.tw[i]
                 IN IF p.pingpong < p.props.pingpong \/ p.props.pingpong = -1
                    THEN restart(flip(w1, i), i)
                    ELSE doneRepeat([flip(w1, i) EXCEPT !.tw[i].pingpong = 0], i)
       ELSE doneRepeat(w0, i)

done(w, i) ==
    LET w0 == [w EXCEPT !.tw[i].value = w.tw[i].props.to_value,
                        !.legs[i] = @ + 1]
        t == w0.tw[i]
    IN IF t.props.pingpong # 0
       THEN IF t.direction = 1
            THEN restart(flip(w0, i), i)
            ELSE LET w1 == [w0 EXCEPT !.tw[i].pingpong = @ + 1]
                     p == w1.tw[i]
                 IN IF p.pingpong < p.props.pingpong \/ p.props.pingpong = -1
                    THEN restart(flip(w1, i), i)
                    ELSE doneRepeat(
                           [flip([w1 EXCEPT !.tw[i].value = p.props.from_value], i)
                               EXCEPT !.tw[i].pingpong = 0], i)
       ELSE doneRepeat(w0, i)

\* update() that does not clamp the elapsed fraction
update_unclamped(w, i) ==
    LET t == w.tw[i] IN
    IF t.is_paused THEN w
    ELSE IF t.is_completed THEN w
    ELSE IF ~t.is_running THEN w
    ELSE LET dt == w.now - t.start_time - t.pause_duration
             time == dt
             tween_time == IF t.direction = 1 THEN time
                           ELSE t.props.duration - time
             tween_value == easing_func(get_tween(t.props.easing), tween_time,
                                        t.props.duration)
             value == lerp(t.props.from_value, t.props.to_value,
                           tween_value[1], tween_value[2])
             w1 == [w EXCEPT !.tw[i].time = time, !.tw[i].value = value,
                             !.frac[i] = time]
             w2 == trigger(w1, i, "update", value)
         IN IF w2.exc THEN w2
            ELSE IF time >= t.props.duration THEN done(w2, i) ELSE w2

\* update() without the is_paused early return
update_ignores_pause(w, i) ==
    LET t == w.tw[i] IN
    IF t.is_completed THEN w
    ELSE IF ~t.is_running THEN w
    ELSE LET dt == w.now - t.start_time - t.pause_duration
             time == Max(0, Min(t.props.duration, dt))
             tween_time == IF t.direction = 1 THEN time
                           ELSE t.props.duration - time
             tween_value == easing_func(get_tween(t.props.easing), tween_time,
                                        t.props.duration)
             value == lerp(t.props.from_value, t.props.to_value,
                           tween_value[1], tween_value[2])
             w1 == [w EXCEPT !.tw[i].time = time, !.tw[i].value = value,
                             !.frac[i] = time]
             w2 == trigger(w1, i, "update", value)
         IN IF w2.exc THEN w2
            ELSE IF time >= t.props.duration THEN done(w2, i) ELSE w2

\* update() without the is_completed early return
update_ignores_completed(w, i) ==
    LET t == w.tw[i] IN
    IF t.is_paused THEN w
    ELSE IF ~t.is_running THEN w
    ELSE LET dt == w.now - t.start_time - t.pause_duration
             time == Max(0, Min(t.props.duration, dt))
             tween_time == IF t.direction = 1 THEN time
                           ELSE t.props.duration - time
             tween_value == easing_func(get_tween(t.props.easing), tween_time,
                                        t.props.duration)
             value == lerp(t.props.from_value, t.props.to_value,
                           tween_value[1], tween_value[2])
             w1 == [w EXCEPT !.tw[i].time = time, !.tw[i].value = value,
                             !.frac[i] = time]
             w2 == trigger(w1, i, "update", value)
         IN IF w2.exc THEN w2
            ELSE IF time >= t.props.duration THEN done(w2, i) ELSE w2

update(w, i) ==
    LET t == w.tw[i] IN
    IF t.is_paused THEN w
    ELSE IF t.is_completed THEN w
    ELSE IF ~t.is_running THEN w
    ELSE LET dt == w.now - t.start_time - t.pause_duration
             time == Max(0, Min(t.props.duration, dt))
             tween_time == IF t.direction = 1 THEN time
                           ELSE t.props.duration - time
             tween_value == easing_func(get_tween(t.props.easing), tween_time,
                                        t.props.duration)
             value == lerp(t.props.from_value, t.props.to_value,
                           tween_value[1], tween_value[2])
             w1 == [w EXCEPT !.tw[i].time = time, !.tw[i].value = value,
                             !.frac[i] = time]
             w2 == trigger(w1, i, "update", value)
         IN IF w2.exc THEN w2
            ELSE IF time >= t.props.duration THEN done(w2, i) ELSE w2

TweenProps(from_value, to_value, duration, easing, repeat, pingpong) ==
    [from_value |-> from_value, to_value |-> to_value, duration |-> duration,
     easing |-> easing, repeat |-> repeat, pingpong |-> pingpong]

\* Tween.__init__ up to "if auto_start"; the new tween becomes w.tw[i]
NewTween(w, i, props, update_callback, complete_callback, auto_start) ==
    LET t0 == [props |-> props, value |-> props.from_value,
               start_time |-> 0, time |-> 0, is_paused |-> FALSE,
               pause_duration |-> 0, paused_at |-> 0, is_running |-> FALSE,
               is_completed |-> FALSE, direction |-> 1, pingpong |-> 0,
               count |-> 0]
        w0 == [w EXCEPT !.tw = DictSet(@, i, t0), !.ls = DictSet(@, i, EmptyDict),
                        !.legs = DictSet(@, i, 0),
                        !.frac = DictSet(@, i, -1)]
        w1 == IF update_callback # "" THEN EvOn(w0, i, "update", PlainCb(update_callback))
              ELSE w0
        w2 == IF complete_callback # "" THEN EvOn(w1, i, "complete", PlainCb(complete_callback))
              ELSE w1
        w3 == reset(w2, i)
    IN IF auto_start THEN start(w3, i) ELSE w3

\* ---------------------------------------------------------------- state
VARIABLES
    clock,      \* the value now() returns
    tw,         \* tween id -> fields of the Tween
    ls,         \* Events object -> listeners dict
    calls,      \* callback name -> number of invocations
    log,        \* invocations made by the last operation, in order
    fired,      \* tweens_fired of the TweenGroup.on closure
    group,      \* TweenGroup.tweens
    coll,       \* Tweens.tweens
    nonce,      \* number of once_callback closures created
    legs,       \* tween id -> number of done() calls
    frac,       \* tween id -> last fraction computed by update()
    lastOp,     \* the last operation the caller made
    hist,       \* tween id -> which operations the caller has used on it
    cyc,        \* tween id -> the caller's own account of the current cycle
    ret,        \* the value the last lerp or Stopwatch.stats call returned
    heard,      \* tweens whose group event the caller has seen fire since
                \* the group callback was last due
    ran,        \* once_callback closure -> number of times it has run
    stats,      \* AppStats.items: name -> fields of the AppStat
    given,      \* the values the AppStat "test" was built and sampled with,
                \* and whether it has been reset
    items,      \* Stopwatch.items: name -> fields of the SingleStopwatch
    callbacks,  \* TimedCallbacks.callbacks
    timer_ids,  \* the module's timer_ids counter
    handles,    \* the timer ids set_interval has returned to the caller,
                \* and those of them the caller has cancelled
    countdown   \* the fields of the timer.Timer, and the time it has spent
                \* paused since it was started

vars == <<clock, tw, ls, calls, log, fired, group, coll, nonce, legs, frac,
          lastOp, hist, cyc, ret, heard, ran, stats, given, items, callbacks,
          timer_ids, handles, countdown>>

\* the state of the modules beside tween and events
aside == <<stats, given, items, callbacks, timer_ids, handles, countdown>>

AsideInit ==
    /\ stats = EmptyDict
    /\ given = [vals |-> <<>>, reset |-> FALSE]
    /\ items = EmptyDict
    /\ callbacks = <<>>
    /\ timer_ids = 0
    /\ handles = [issued |-> {}, cancelled |-> {}]
    /\ countdown = <<>>

\* update_callback of the k-th tween appended to a Tweens collection
UNames == <<"u1", "u2", "u3", "u4">>

CbNames == {"update_callback", "complete_callback", "a", "b", "c", "group_cb"}
               \cup Raising \cup Reentrant \cup Inspecting \cup Stopping
               \cup {UNames[k] : k \in DOMAIN UNames}

\* the operation the caller made last: its name, the tween it was made on
\* (0 when none), and for an emit the event and the argument
Op(op, i) == [op |-> op, i |-> i, ev |-> "", arg |-> 0]

OpEmit(ev, arg) == [op |-> "emit", i |-> 0, ev |-> ev, arg |-> arg]

\* off(event_name, callback) and off(event_name): the event, and the name
\* of the callback ("" when none was given)
OpOff(ev, name) == [op |-> "off", i |-> 0, ev |-> ev, arg |-> name]

World(oracle) ==
    [now |-> clock, tw |-> tw, ls |-> ls, calls |-> calls, log |-> <<>>,
     fired |-> fired, group |-> group, oracle |-> oracle, frames |-> <<>>,
     legs |-> legs, frac |-> [i \in DOMAIN frac |-> -1], exc |-> FALSE,
     ran |-> ran]

EmptyWorld ==
    [now |-> 0, tw |-> EmptyDict, ls |-> EmptyDict,
     calls |-> [c \in CbNames |-> 0], log |-> <<>>, fired |-> {},
     group |-> <<>>, oracle |-> <<>>, frames |-> <<>>, legs |-> EmptyDict,
     frac |-> EmptyDict, exc |-> FALSE, ran |-> [k \in 1..MaxOnce |-> 0]]

\* the caller's account of a TweenGroup subscription: which tweens have
\* fired the event since all of them last had, after the relay invocations
\* of the log lg, for the group of tweens all
RECURSIVE HeardAfter(_, _, _)
HeardAfter(h, lg, all) ==
    IF lg = <<>> THEN h
    ELSE IF Head(lg).cb = "on_tween_fire"
         THEN LET h1 == h \cup {Head(lg).obj}
              IN HeardAfter(IF h1 = all THEN {} ELSE h1, Tail(lg), all)
         ELSE HeardAfter(h, Tail(lg), all)

Commit(w, op) ==
    /\ tw' = w.tw
    /\ ls' = w.ls
    /\ calls' = w.calls
    /\ log' = w.log
    /\ fired' = w.fired
    /\ legs' = w.legs
    /\ frac' = w.frac
    /\ lastOp' = op
    /\ ret' = ret
    /\ heard' = HeardAfter(heard, w.log, {group[k] : k \in 1..Len(group)})
    /\ ran' = w.ran
    /\ UNCHANGED aside

NewCycle(t) == [start |-> t, paused |-> 0, pausing |-> FALSE]

CoreInit(w) ==
    /\ clock = 0
    /\ tw = w.tw
    /\ ls = w.ls
    /\ calls = w.calls
    /\ log = <<>>
    /\ legs = w.legs
    /\ frac = w.frac
    /\ nonce = 0
    /\ lastOp = Op("init", 0)
    /\ fired = w.fired
    /\ hist = [i \in DOMAIN w.tw |-> "update"]
    /\ cyc = [i \in DOMAIN w.tw |-> NewCycle(0)]
    /\ ret = PyNone
    /\ heard = {}
    /\ ran = w.ran

InitFrom(w) == CoreInit(w) /\ AsideInit

CallsBelowCap == \A c \in CbNames : calls[c] < MaxCalls

\* hist[i] is "update" while the caller has only called update() on tween
\* i, "pause" once it has also called pause() or unpause(), and "any" once
\* it has called anything else.  cyc[i] is the caller's account of the
\* current cycle while hist[i] # "any": when the cycle started, how long
\* the tween has been inside a pause window (between a pause() and the
\* matching unpause()) during it, and whether such a window is open.
NoteOp(i, kind) ==
    hist' = [hist EXCEPT ![i] = IF kind = "any" \/ @ = "any" THEN "any"
                                ELSE IF kind = "pause" THEN "pause" ELSE @]

\* ---------------------------------------------------------------- the clock
Tick ==
    /\ clock < MaxClock
    /\ clock' = clock + 1
    /\ cyc' = [i \in DOMAIN cyc |->
                 IF cyc[i].pausing THEN [cyc[i] EXCEPT !.paused = @ + 1] ELSE cyc[i]]
    /\ lastOp' = Op("tick", 0)
    /\ log' = <<>>
    /\ frac' = [i \in DOMAIN frac |-> -1]
    /\ UNCHANGED <<tw, ls, calls, fired, group, coll, nonce, legs, hist, ret,
                   heard, ran, aside>>

\* ---------------------------------------------------------------- Tween operations
UpdateWith(i, oracle) ==
    LET w == update(World(oracle), i) IN
    /\ CallsBelowCap
    /\ Commit(w, Op("update", i))
    /\ cyc' = IF w.legs[i] > legs[i] /\ hist[i] # "any"
              THEN [cyc EXCEPT ![i] = NewCycle(clock)]
              ELSE cyc
    /\ UNCHANGED <<clock, group, coll, nonce, hist>>

Update(i) == UpdateWith(i, <<>>)

Start(i) ==
    /\ Commit(start(World(<<>>), i), Op("start", i))
    /\ NoteOp(i, "any")
    /\ cyc' = [cyc EXCEPT ![i] = NewCycle(0)]
    /\ UNCHANGED <<clock, group, coll, nonce>>

Stop(i) ==
    /\ Commit(stop(World(<<>>), i), Op("stop", i))
    /\ NoteOp(i, "any")
    /\ cyc' = [cyc EXCEPT ![i] = NewCycle(0)]
    /\ UNCHANGED <<clock, group, coll, nonce>>

Restart(i) ==
    /\ Commit(restart(World(<<>>), i), Op("restart", i))
    /\ NoteOp(i, "any")
    /\ cyc' = [cyc EXCEPT ![i] = NewCycle(0)]
    /\ UNCHANGED <<clock, group, coll, nonce>>

Pause(i) ==
    /\ Commit(pause(World(<<>>), i), Op("pause", i))
    /\ NoteOp(i, "pause")
    /\ cyc' = IF hist[i] # "any" THEN [cyc EXCEPT ![i].pausing = TRUE] ELSE cyc
    /\ UNCHANGED <<clock, group, coll, nonce>>

Unpause(i) ==
    /\ Commit(unpause(World(<<>>), i), Op("unpause", i))
    /\ NoteOp(i, "pause")
    /\ cyc' = IF hist[i] # "any" THEN [cyc EXCEPT ![i].pausing = FALSE] ELSE cyc
    /\ UNCHANGED <<clock, group, coll, nonce>>

Flip(i) ==
    /\ Commit(flip(World(<<>>), i), Op("flip", i))
    /\ NoteOp(i, "any")
    /\ cyc' = [cyc EXCEPT ![i] = NewCycle(0)]
    /\ UNCHANGED <<clock, group, coll, nonce>>

\* Tween.on(event_name, callback), for a callback not subscribed to it now
On(i, ev, name) ==
    /\ ~InSeq(Listeners(ls[i], ev), PlainCb(name))
    /\ Commit(EvOn(World(<<>>), i, ev, PlainCb(name)), Op("on", i))
    /\ UNCHANGED <<clock, group, coll, nonce, hist, cyc>>

\* ---------------------------------------------------------------- one Tween
\* the configurations a single tween is built with: (duration in ms,
\* repeat, pingpong), animating 0 -> 100
Configs == {<<3, 0, 0>>, <<1, 2, 0>>, <<1, -1, 0>>, <<2, 1, 1>>, <<1, 0, -1>>}

PropsSet == {TweenProps(0, 100, c[1], "linear", c[2], c[3]) : c \in Configs}

Init ==
    /\ \E props \in PropsSet, auto_start \in BOOLEAN :
          InitFrom(NewTween(EmptyWorld, 1, props, "update_callback",
                            "complete_callback", auto_start))
    /\ group = <<>>
    /\ coll = <<>>

Next ==
    \/ Tick
    \/ Update(1)
    \/ Start(1)
    \/ Stop(1)
    \/ Restart(1)
    \/ Pause(1)
    \/ Unpause(1)
    \/ Flip(1)
    \/ On(1, "update", "update_callback")
    \/ On(1, "complete", "complete_callback")

Spec == Init /\ [][Next]_vars

\* ---------------------------------------------------------------- TweenGroup
\* TweenGroup.on: one on_tween_fire closure, subscribed on every tween of
\* the group in turn
RECURSIVE SubscribeAll(_, _, _, _)
SubscribeAll(w, tweens, ev, cb) ==
    IF tweens = <<>> THEN w
    ELSE SubscribeAll(EvOn(w, Head(tweens), ev, cb), Tail(tweens), ev, cb)

GroupOn(w, ev, name) ==
    SubscribeAll([w EXCEPT !.fired = {}], w.group, ev, RelayCb(name))

\* n tweens built by the caller, of the given durations, each run once
RECURSIVE NewTweens(_, _, _)
NewTweens(w, n, durations) ==
    IF n = 0 THEN w
    ELSE NewTween(NewTweens(w, n - 1, durations), n,
                  TweenProps(0, 100, durations[n], "linear", 0, 0), "", "", TRUE)

GroupDurations == {1, 2}

\* id(kwargs): the address of the argument tuple of one on_tween_fire call.
\* Tuples of calls that do not overlap in time may or may not get the same
\* address, so each call draws its address freely.
Addrs == 1..NumAddr

\* at most two listener fan-outs happen in one update()
Oracles == [1..2 -> Addrs]

GroupUpdate(i) == \E oracle \in Oracles : UpdateWith(i, oracle)

GroupInit ==
    /\ \E n \in 1..MaxGroup : \E durations \in [1..n -> GroupDurations] :
          LET tweens == [k \in 1..n |-> k]
              w == NewTweens(EmptyWorld, n, durations)
          IN /\ group = tweens
             /\ InitFrom(GroupOn([w EXCEPT !.group = tweens], "complete", "group_cb"))
    /\ coll = <<>>

GroupNext ==
    \/ Tick
    \/ \E i \in DOMAIN tw : GroupUpdate(i)

SpecGroup == GroupInit /\ [][GroupNext]_vars

\* a group subscribed to 'update', an event every tween fires many times
GroupRecurringInit ==
    /\ \E n \in 1..MaxGroup : \E durations \in [1..n -> GroupDurations] :
          LET tweens == [k \in 1..n |-> k]
              w == NewTweens(EmptyWorld, n, durations)
          IN /\ group = tweens
             /\ InitFrom(GroupOn([w EXCEPT !.group = tweens], "update", "group_cb"))
    /\ coll = <<>>

SpecGroupRecurring == GroupRecurringInit /\ [][GroupNext]_vars

\* TweenGroup.is_complete that answers True at the first completed tween
RECURSIVE is_complete_any(_, _)
is_complete_any(w, tweens) ==
    IF tweens = <<>> THEN TRUE
    ELSE IF w.tw[Head(tweens)].is_completed THEN TRUE
    ELSE is_complete_any(w, Tail(tweens))

\* TweenGroup.is_complete: the loop over self.tweens, on what is left of it
RECURSIVE is_complete(_, _)
is_complete(w, tweens) ==
    IF tweens = <<>> THEN TRUE
    ELSE IF ~w.tw[Head(tweens)].is_completed THEN FALSE
    ELSE is_complete(w, Tail(tweens))

\* a group of 0 to MaxGroup tweens that the caller updates, restarting the
\* ones that have completed
GroupStateInit ==
    /\ \E n \in 0..MaxGroup : \E durations \in [1..n -> GroupDurations] :
          LET tweens == [k \in 1..n |-> k]
              w == NewTweens(EmptyWorld, n, durations)
          IN /\ group = tweens
             /\ InitFrom([w EXCEPT !.group = tweens])
    /\ coll = <<>>

GroupStateNext ==
    \/ Tick
    \/ \E i \in DOMAIN tw : Update(i)
    \/ \E i \in DOMAIN tw : tw[i].is_completed /\ Restart(i)

SpecGroupState == GroupStateInit /\ [][GroupStateNext]_vars

\* ---------------------------------------------------------------- Tweens
RECURSIVE UpdateEach(_, _)
UpdateEach(w, tweens) ==
    IF tweens = <<>> \/ w.exc THEN w
    ELSE UpdateEach(update(w, Head(tweens)), Tail(tweens))

\* Tweens.update that decides what to keep before it updates
TweensUpdate_stale_flags(w, tweens) ==
    LET w1 == UpdateEach(w, tweens)
    IN [w |-> w1,
        tweens |-> IF w1.exc THEN tweens
                   ELSE SelectSeq(tweens, LAMBDA i : ~w.tw[i].is_completed)]

\* Tweens.update: the pass over self.tweens, then the list without the
\* completed tweens; the result is the world and the new list
TweensUpdate(w, tweens) ==
    LET w1 == UpdateEach(w, tweens)
    IN [w |-> w1,
        tweens |-> IF w1.exc THEN tweens
                   ELSE SelectSeq(tweens, LAMBDA i : ~w1.tw[i].is_completed)]

\* the (duration in ms, repeat) the appended tweens are built with
CollConfigs == {<<1, 1>>, <<2, 1>>, <<1, 2>>}

\* Tweens.append(0, 100, duration, 'linear', repeat, update_callback)
CollAppend(duration, repeat) ==
    LET i == Cardinality(DOMAIN tw) + 1
        w == NewTween(World(<<>>), i, TweenProps(0, 100, duration, "linear", repeat, 0),
                      UNames[i], "", TRUE)
    IN /\ i <= MaxTweens
       /\ Commit([w EXCEPT !.frac = [k \in DOMAIN w.frac |-> -1]], Op("append", i))
       /\ coll' = Append(coll, i)
       /\ hist' = [k \in DOMAIN w.tw |-> IF k = i THEN "update" ELSE hist[k]]
       /\ cyc' = [k \in DOMAIN w.tw |-> IF k = i THEN NewCycle(clock) ELSE cyc[k]]
       /\ UNCHANGED <<clock, group, nonce>>

CollUpdate ==
    LET r == TweensUpdate(World(<<>>), coll) IN
    /\ coll # <<>>
    /\ Commit(r.w, Op("tweens_update", 0))
    /\ coll' = r.tweens
    /\ UNCHANGED <<clock, group, nonce, hist, cyc>>

CollInit ==
    /\ InitFrom(EmptyWorld)
    /\ group = <<>>
    /\ coll = <<>>

CollNext ==
    \/ Tick
    \/ \E c \in CollConfigs : CollAppend(c[1], c[2])
    \/ CollUpdate

SpecTweens == CollInit /\ [][CollNext]_vars

\* ---------------------------------------------------------------- Events
\* the callbacks subscribed with on(), and the one subscribed with once()
EventsCallbacks == {"a", "b"}

OnceCallbacks == {"c"}

EmitArgs == {1, 2}

MaxListeners == 3

EvLen(ev) == Len(Listeners(ls[0], ev))

EventsOn(ev, name) ==
    /\ EvLen(ev) < MaxListeners
    /\ Commit(EvOn(World(<<>>), 0, ev, PlainCb(name)), Op("on", 0))
    /\ UNCHANGED <<clock, group, coll, nonce, hist, cyc>>

\* Events.once: a new once_callback closure around the callback
EventsOnce(ev, name) ==
    /\ EvLen(ev) < MaxListeners
    /\ nonce < MaxOnce
    /\ nonce' = nonce + 1
    /\ Commit(EvOn(World(<<>>), 0, ev, OnceCb(name, nonce + 1)), Op("once", 0))
    /\ UNCHANGED <<clock, group, coll, hist, cyc>>

EventsOff(ev, name) ==
    /\ Commit(EvOff(World(<<>>), 0, ev, PlainCb(name)), OpOff(ev, name))
    /\ UNCHANGED <<clock, group, coll, nonce, hist, cyc>>

EventsEmit(ev, arg) ==
    /\ CallsBelowCap
    /\ Commit(trigger(World(<<>>), 0, ev, arg), OpEmit(ev, arg))
    /\ UNCHANGED <<clock, group, coll, nonce, hist, cyc>>

EventsInit ==
    /\ InitFrom([EmptyWorld EXCEPT !.ls = DictSet(EmptyDict, 0, EmptyDict)])
    /\ group = <<>>
    /\ coll = <<>>

EventsNext ==
    \/ \E ev \in EventNames, name \in EventsCallbacks : EventsOn(ev, name)
    \/ \E ev \in EventNames, name \in OnceCallbacks : EventsOnce(ev, name)
    \/ \E ev \in EventNames, name \in EventsCallbacks : EventsOff(ev, name)
    \/ \E ev \in EventNames, arg \in EmitArgs : EventsEmit(ev, arg)

SpecEvents == EventsInit /\ [][EventsNext]_vars

\* ---------------------------------------------------------------- subscriptions
\* one Events object whose listeners are subscribed with on() and once(),
\* unsubscribed one by one, per event and all together, and emitted to;
\* the once() callbacks are "c" and the re-entrant "r"
SubsOnceCallbacks == {"c"} \cup Reentrant

\* off(event_name) with no callback
EventsOffEvent(ev) ==
    /\ Commit(EvOffEvent(World(<<>>), 0, ev), OpOff(ev, ""))
    /\ UNCHANGED <<clock, group, coll, nonce, hist, cyc>>

\* off() with no event name
EvOffAll(w, obj) == EvReset(w, obj)

EventsOffAll ==
    /\ Commit(EvOffAll(World(<<>>), 0), Op("off_all", 0))
    /\ UNCHANGED <<clock, group, coll, nonce, hist, cyc>>

EventsReset ==
    /\ Commit(EvReset(World(<<>>), 0), Op("reset", 0))
    /\ UNCHANGED <<clock, group, coll, nonce, hist, cyc>>

SubsNext ==
    \/ \E ev \in EventNames, name \in EventsCallbacks :
          EvLen(ev) < MaxOnce /\ EventsOn(ev, name)
    \/ \E ev \in EventNames, name \in SubsOnceCallbacks :
          EvLen(ev) < MaxOnce /\ EventsOnce(ev, name)
    \/ \E ev \in EventNames, name \in EventsCallbacks : EventsOff(ev, name)
    \/ \E ev \in EventNames : EventsOffEvent(ev)
    \/ EventsOffAll
    \/ EventsReset
    \/ \E ev \in EventNames : EventsEmit(ev, 1)

SpecSubs == EventsInit /\ [][SubsNext]_vars

\* ---------------------------------------------------------------- easing of one Tween
\* easing names a tween is built with: names of the lookup table, and names
\* that are not in it
EasingNames == {"linear", "easeInQuad", "easeOutQuad", "bounce", "ease_in_quad"}

\* (duration in ms, repeat, pingpong) of the eased tweens
EasingConfigs == {<<4, 0, 0>>, <<2, 0, 1>>, <<3, -1, 0>>}

EasingInit ==
    /\ \E c \in EasingConfigs, easing \in EasingNames :
          InitFrom(NewTween(EmptyWorld, 1,
                            TweenProps(0, 100, c[1], easing, c[2], c[3]),
                            "update_callback", "complete_callback", TRUE))
    /\ group = <<>>
    /\ coll = <<>>

EasingNext ==
    \/ Tick
    \/ Update(1)

SpecEasing == EasingInit /\ [][EasingNext]_vars

\* ---------------------------------------------------------------- easing given as a function
\* function objects passed as the easing argument, each written as the
\* table name of the curve it computes between angle brackets; like every
\* object that is not a key of tween_functions_lookup, none of them is in
\* the table
EasingFunctions == {"<linear>", "<easeInQuad>", "<easeOutQuad>"}

\* the table name of the curve the function computes
CurveOf(f) ==
    CASE f = "<linear>" -> "linear"
      [] f = "<easeInQuad>" -> "easeInQuad"
      [] f = "<easeOutQuad>" -> "easeOutQuad"

FunctionInit ==
    /\ \E c \in EasingConfigs, easing \in EasingFunctions :
          InitFrom(NewTween(EmptyWorld, 1,
                            TweenProps(0, 100, c[1], easing, c[2], c[3]),
                            "update_callback", "complete_callback", TRUE))
    /\ group = <<>>
    /\ coll = <<>>

SpecEasingFunction == FunctionInit /\ [][EasingNext]_vars

\* ---------------------------------------------------------------- lerp calls
IntValues == -2..3

\* the floats up to a magnitude where neighbours are four units apart
FloatValues ==
    LET top == 2 ^ (MantBits + 1) + 2
    IN {k \in -top..top : FRound(k, 1) = k}

StrValues == {<<>>, <<"a">>, <<"a", "b">>, <<"x", "y", "z">>}

\* the interpolation factors -0.5, 0, 0.5, 1 and 1.5
Fractions == {<<-1, 2>>, <<0, 1>>, <<1, 2>>, <<1, 1>>, <<3, 2>>}

\* pairs (x, y) of corresponding elements of two sequences
ElemPairs ==
    <<<<PyInt(0), PyInt(3)>>, <<PyInt(2), PyInt(2)>>,
      <<PyFloat(1), PyFloat(10)>>, <<PyFloat(4), PyFloat(4)>>,
      <<PyStr(<<"a", "b">>), PyStr(<<"a", "b">>)>>>>

\* the choices of at most two element pairs
PairChoices == UNION {[1..n -> DOMAIN ElemPairs] : n \in 0..2}

\* the first (side = 1) or second (side = 2) of the two sequences whose
\* zip() is the chosen sequence of pairs
Unzip(choice, side) == [k \in DOMAIN choice |-> ElemPairs[choice[k]][side]]

OpLerp(a, b, value) == [op |-> "lerp", i |-> 0, ev |-> "", arg |-> <<a, b, value>>]

\* the call lerp(a, b, value); lerp keeps no state, so one call is made
LerpOf(a, b, value) ==
    /\ lastOp.op = "init"
    /\ lastOp' = OpLerp(a, b, value)
    /\ ret' = Lerp(a, b, value)
    /\ UNCHANGED <<clock, tw, ls, calls, log, fired, group, coll, nonce,
                   legs, frac, hist, cyc, heard, ran, aside>>

LerpCall ==
    \E value \in Fractions :
        \/ \E x \in IntValues, y \in IntValues : LerpOf(PyInt(x), PyInt(y), value)
        \/ \E x \in FloatValues, y \in FloatValues :
              LerpOf(PyFloat(x), PyFloat(y), value)
        \/ \E x \in StrValues, y \in StrValues : LerpOf(PyStr(x), PyStr(y), value)
        \/ LerpOf(PyNone, PyNone, value)
        \/ \E c \in PairChoices :
              \/ LerpOf(PyList(Unzip(c, 1)), PyList(Unzip(c, 2)), value)
              \/ LerpOf(PyTuple(Unzip(c, 1)), PyTuple(Unzip(c, 2)), value)
              \/ LerpOf(PyList(<<PyTuple(Unzip(c, 1))>>),
                        PyList(<<PyTuple(Unzip(c, 2))>>), value)
        \/ LerpOf(PyList(<<PyInt(1), PyInt(2)>>), PyList(<<PyInt(3)>>), value)

LerpInit ==
    /\ InitFrom(EmptyWorld)
    /\ group = <<>>
    /\ coll = <<>>

LerpNext == LerpCall

SpecLerp == LerpInit /\ [][LerpNext]_vars

\* ---------------------------------------------------------------- raising listeners
\* (duration in ms, repeat, pingpong) of the tweens with a raising listener
RaisingConfigs == {<<1, 0, 0>>, <<2, 0, 0>>, <<1, 2, 0>>, <<2, -1, 0>>, <<1, 0, 1>>}

\* one tween whose 'update' listener or whose 'complete' listener raises
RaisingInit ==
    /\ \E c \in RaisingConfigs, broken \in EventNames :
          InitFrom(NewTween(EmptyWorld, 1,
                            TweenProps(0, 100, c[1], "linear", c[2], c[3]),
                            IF broken = "update" THEN "boom" ELSE "update_callback",
                            IF broken = "complete" THEN "boom"
                            ELSE "complete_callback",
                            TRUE))
    /\ group = <<>>
    /\ coll = <<>>

\* a raise out of complete() leaves the tween at the boundary, where every
\* further update() runs done() again: the caller gives up after MaxCalls
RaisingNext ==
    \/ Tick
    \/ legs[1] < MaxCalls /\ Update(1)

SpecRaising == RaisingInit /\ [][RaisingNext]_vars

\* Tweens.append(0, 100, duration, 'linear', repeat, boom)
CollAppendBroken(duration, repeat) ==
    LET i == Cardinality(DOMAIN tw) + 1
        w == NewTween(World(<<>>), i, TweenProps(0, 100, duration, "linear", repeat, 0),
                      "boom", "", TRUE)
    IN /\ i <= MaxTweens
       /\ Commit([w EXCEPT !.frac = [k \in DOMAIN w.frac |-> -1]], Op("append", i))
       /\ coll' = Append(coll, i)
       /\ hist' = [k \in DOMAIN w.tw |-> IF k = i THEN "update" ELSE hist[k]]
       /\ cyc' = [k \in DOMAIN w.tw |-> IF k = i THEN NewCycle(clock) ELSE cyc[k]]
       /\ UNCHANGED <<clock, group, nonce>>

\* a collection in which some tweens have a raising 'update' listener
CollRaisingNext ==
    \/ Tick
    \/ \E c \in CollConfigs : CollAppend(c[1], c[2])
    \/ \E c \in CollConfigs : CollAppendBroken(c[1], c[2])
    \/ CollUpdate

SpecTweensRaising == CollInit /\ [][CollRaisingNext]_vars

\* ---------------------------------------------------------------- appstats
\* the tween and events state of a program that uses neither
quiet == <<tw, ls, fired, group, coll, nonce, legs, frac, hist, cyc, heard, ran>>

QuietInit ==
    /\ CoreInit(EmptyWorld)
    /\ group = <<>>
    /\ coll = <<>>

\* AppStat.__init__; mean is kept as the exact fraction <<numerator,
\* denominator>> of the quotient that "/" computes
AppStat(name, value) ==
    [name |-> name, value |-> value, total_samples |-> 1,
     mean |-> <<value, 1>>, min |-> value, max |-> value]

\* mean + (value - mean) / n for mean = p / q
MeanStep(mean, value, n) ==
    <<mean[1] * n + (value * mean[2] - mean[1]), mean[2] * n>>

AppStat_sample_stale_count(s, value) ==
    [s EXCEPT !.value = value,
              !.total_samples = @ + 1,
              !.mean = MeanStep(@, value, s.total_samples),
              !.min = Min(@, value),
              !.max = Max(@, value)]

AppStat_sample(s, value) ==
    [s EXCEPT !.value = value,
              !.total_samples = @ + 1,
              !.mean = MeanStep(@, value, s.total_samples + 1),
              !.min = Min(@, value),
              !.max = Max(@, value)]

AppStat_reset(s) ==
    [s EXCEPT !.value = 0, !.total_samples = 0, !.mean = <<0, 1>>,
              !.min = 0, !.max = 0]

\* the values sampled
SampleValues == -2..3

StatSample(value) ==
    /\ Len(given.vals) < MaxCalls
    /\ stats' = [stats EXCEPT !["test"] = AppStat_sample(@, value)]
    /\ given' = [given EXCEPT !.vals = Append(@, value)]
    /\ lastOp' = Op("sample", 0)
    /\ UNCHANGED <<clock, calls, log, ret, quiet, items, callbacks, timer_ids,
                   handles, countdown>>

StatReset ==
    /\ ~given.reset
    /\ stats' = [stats EXCEPT !["test"] = AppStat_reset(@)]
    /\ given' = [vals |-> <<>>, reset |-> TRUE]
    /\ lastOp' = Op("reset", 0)
    /\ UNCHANGED <<clock, calls, log, ret, quiet, items, callbacks, timer_ids,
                   handles, countdown>>

StatInit ==
    /\ QuietInit
    /\ \E v0 \in SampleValues :
          /\ stats = DictSet(EmptyDict, "test", AppStat("test", v0))
          /\ given = [vals |-> <<v0>>, reset |-> FALSE]
    /\ items = EmptyDict
    /\ callbacks = <<>>
    /\ timer_ids = 0
    /\ handles = [issued |-> {}, cancelled |-> {}]
    /\ countdown = <<>>

StatNext ==
    \/ \E value \in SampleValues : StatSample(value)
    \/ StatReset

SpecAppStat == StatInit /\ [][StatNext]_vars

\* ---------------------------------------------------------------- timer
\* TimedCallbacks as the record [callbacks, timer_ids, log]; an entry of
\* callbacks is <<timer_id, callback_time, callback>>, and the time is
\* timer.time() in ms

MaxIntervals == 2

\* delays in seconds, as fractions
Delays == {<<1, 1000>>, <<2, 1000>>, <<3, 2000>>}

TimedCallbacks_append(t, callback, delay, now) ==
    LET timer_id == t.timer_ids + 1
        callback_time == now + Trunc(delay[1] * 1000, delay[2])
    IN [t EXCEPT !.timer_ids = timer_id,
                 !.callbacks = Append(@, <<timer_id, callback_time, callback>>)]

\* the interval_wrapper closure over callback and delay
interval_wrapper(callback, delay) ==
    [kind |-> "interval_wrapper", callback |-> callback, delay |-> delay]

set_interval(t, callback, delay, now) ==
    TimedCallbacks_append(t, interval_wrapper(callback, delay), delay, now)

\* the deletion of the first entry with that id, if any
RECURSIVE cancel(_, _)
cancel(cbs, timer_id) ==
    IF cbs = <<>> THEN <<>>
    ELSE IF Head(cbs)[1] = timer_id THEN Tail(cbs)
    ELSE <<Head(cbs)>> \o cancel(Tail(cbs), timer_id)

cancel_interval(cbs, timer_id) == cancel(cbs, timer_id)

\* the backwards scan of update(): the entries that stay, and the due
\* callbacks in the order they were met
RECURSIVE Due(_, _, _, _)
Due(cbs, i, now, run) ==
    IF i = 0 THEN [callbacks |-> cbs, callbacks_to_run |-> run]
    ELSE IF now >= cbs[i][2]
         THEN Due(SubSeq(cbs, 1, i - 1) \o SubSeq(cbs, i + 1, Len(cbs)),
                  i - 1, now, Append(run, cbs[i][3]))
         ELSE Due(cbs, i - 1, now, run)

\* the call of interval_wrapper: the callback, then a new set_interval
RECURSIVE RunAll(_, _, _)
RunAll(t, run, now) ==
    IF run = <<>> THEN t
    ELSE LET w == Head(run)
             t1 == [t EXCEPT !.log = Append(@, [cb |-> "interval",
                                                obj |-> w.callback,
                                                ev |-> "", arg |-> 0])]
         IN RunAll(set_interval(t1, w.callback, w.delay, now), Tail(run), now)

TimedCallbacks_update(t, now) ==
    IF Len(t.callbacks) = 0 THEN t
    ELSE LET d == Due(t.callbacks, Len(t.callbacks), now, <<>>)
         IN RunAll([t EXCEPT !.callbacks = d.callbacks], d.callbacks_to_run, now)

TimedCallbacks == [callbacks |-> callbacks, timer_ids |-> timer_ids, log |-> <<>>]

TimerCommit(t, op) ==
    /\ callbacks' = t.callbacks
    /\ timer_ids' = t.timer_ids
    /\ log' = t.log
    /\ lastOp' = op
    /\ UNCHANGED <<clock, calls, ret, quiet, stats, given, items, countdown>>

\* the caller gives every interval a callback of its own, told apart by
\* the id set_interval returns for it
SetInterval(delay) ==
    /\ Cardinality(handles.issued) < MaxIntervals
    /\ TimerCommit(set_interval(TimedCallbacks, timer_ids + 1, delay, clock),
                   Op("set_interval", 0))
    /\ handles' = [handles EXCEPT !.issued = @ \cup {timer_ids + 1}]

CancelInterval(timer_id) ==
    /\ TimerCommit([TimedCallbacks EXCEPT
                        !.callbacks = cancel_interval(@, timer_id)],
                   Op("cancel_interval", 0))
    /\ handles' = [handles EXCEPT !.cancelled = @ \cup {timer_id}]

TimerUpdate ==
    /\ TimerCommit(TimedCallbacks_update(TimedCallbacks, clock),
                   Op("timer_update", 0))
    /\ UNCHANGED handles

TimerInit == QuietInit /\ AsideInit

TimerNext ==
    \/ Tick
    \/ \E delay \in Delays : SetInterval(delay)
    \/ \E timer_id \in handles.issued : CancelInterval(timer_id)
    \/ TimerUpdate

SpecTimer == TimerInit /\ [][TimerNext]_vars

\* ---------------------------------------------------------------- stopwatch
\* AppStats.sample on the registry st
AppStats_sample(st, name, value) ==
    IF name \notin DOMAIN st
    THEN DictSet(st, name, AppStat(name, value))
    ELSE [st EXCEPT ![name] = AppStat_sample(@, value)]

\* AppStats.get(name) for a name that is not None: the AppStat object,
\* or the KeyError that the subscript raises
AppStats_get(st, name) ==
    IF name \in DOMAIN st THEN <<"AppStat", name>> ELSE <<"KeyError", name>>

SingleStopwatch(name) ==
    [name |-> name, start_time |-> 0, stop_time |-> 0, running |-> FALSE]

SingleStopwatch_reset(sw) ==
    [sw EXCEPT !.start_time = 0, !.stop_time = 0, !.running = FALSE]

SingleStopwatch_start(sw, now) ==
    [SingleStopwatch_reset(sw) EXCEPT !.start_time = now, !.running = TRUE]

SingleStopwatch_time(sw, now) ==
    IF sw.running THEN now - sw.start_time ELSE sw.stop_time

\* the names the caller starts stopwatches under, and the names it uses
WatchNames == {"op"}

AskedNames == WatchNames \cup {"idle"}

OpWatch(op, name) == [op |-> op, i |-> 0, ev |-> name, arg |-> 0]

WatchCommit(its, sts, r, op) ==
    /\ items' = its
    /\ stats' = sts
    /\ ret' = r
    /\ lastOp' = op
    /\ UNCHANGED <<clock, calls, log, quiet, given, callbacks, timer_ids,
                   handles, countdown>>

Stopwatch_start(name) ==
    LET sw == IF name \in DOMAIN items THEN items[name]
              ELSE SingleStopwatch(name)
    IN WatchCommit(DictSet(items, name, SingleStopwatch_start(sw, clock)),
                   stats, ret, OpWatch("start", name))

Stopwatch_stop(name) ==
    IF name \in DOMAIN items
    THEN LET elapsed_time == SingleStopwatch_time(items[name], clock)
         IN /\ name \in DOMAIN stats => stats[name].total_samples < MaxCalls
            /\ WatchCommit([items EXCEPT ![name].stop_time = elapsed_time,
                                         ![name].running = FALSE],
                           AppStats_sample(stats, name, elapsed_time),
                           ret, OpWatch("stop", name))
    ELSE WatchCommit(items, stats, ret, OpWatch("stop", name))

Stopwatch_reset(name) ==
    WatchCommit(IF name \in DOMAIN items
                THEN [items EXCEPT ![name] = SingleStopwatch_reset(@)]
                ELSE items,
                stats, ret, OpWatch("reset", name))

Stopwatch_stats(name) ==
    WatchCommit(items, stats,
                IF name \notin DOMAIN items THEN PyNone
                ELSE AppStats_get(stats, name),
                OpWatch("stats", name))

WatchInit == QuietInit /\ AsideInit

WatchNext ==
    \/ Tick
    \/ \E name \in WatchNames : Stopwatch_start(name)
    \/ \E name \in AskedNames : Stopwatch_stop(name)
    \/ \E name \in AskedNames : Stopwatch_reset(name)
    \/ \E name \in AskedNames : Stopwatch_stats(name)

SpecStopwatch == WatchInit /\ [][WatchNext]_vars

\* ---------------------------------------------------------------- easing curves
\* the curves of EasingFunctions on exact fractions <<numerator, denominator>>
\* with a positive denominator
Q(n) == <<n, 1>>

QNorm(q) == IF q[2] < 0 THEN <<-q[1], -q[2]>> ELSE q

QAdd(x, y) == <<x[1] * y[2] + y[1] * x[2], x[2] * y[2]>>

QNeg(x) == <<-x[1], x[2]>>

QSub(x, y) == QAdd(x, QNeg(y))

QMul(x, y) == <<x[1] * y[1], x[2] * y[2]>>

QDiv(x, y) == QNorm(<<x[1] * y[2], x[2] * y[1]>>)

QLess(x, y) == x[1] * y[2] < y[1] * x[2]

QEq(x, y) == x[1] * y[2] = y[1] * x[2]

\* math.pow(2, x) for a whole x
Pow2(x) ==
    LET k == x[1] \div x[2]
    IN IF k >= 0 THEN <<2 ^ k, 1>> ELSE <<1, 2 ^ (-k)>>

\* math.cos and math.sin of x * (math.pi / 2) for a whole x
CosQuarter(x) ==
    LET k == (x[1] \div x[2]) % 4
    IN CASE k = 0 -> Q(1) [] k = 1 -> Q(0) [] k = 2 -> Q(-1) [] k = 3 -> Q(0)

SinQuarter(x) == CosQuarter(QSub(x, Q(1)))

\* math.sqrt of the square of a fraction
Sqrt(x) ==
    LET r == CHOOSE r \in 0..Max(x[1], x[2]) : r * r = x[1]
        s == CHOOSE s \in 1..Max(x[1], x[2]) : s * s = x[2]
    IN <<r, s>>

ease_in_out_quad(t, b, c, d) ==
    LET t1 == QDiv(t, QDiv(d, Q(2)))
        t2 == QSub(t1, Q(1))
    IN IF QLess(t1, Q(1))
       THEN QAdd(QMul(QMul(QDiv(c, Q(2)), t1), t1), b)
       ELSE QAdd(QMul(QDiv(QNeg(c), Q(2)),
                      QSub(QMul(t2, QSub(t2, Q(2))), Q(1))), b)

ease_in_cubic(t, b, c, d) ==
    LET t1 == QDiv(t, d)
    IN QAdd(QMul(QMul(QMul(c, t1), t1), t1), b)

ease_out_cubic(t, b, c, d) ==
    LET t1 == QSub(QDiv(t, d), Q(1))
    IN QAdd(QMul(c, QAdd(QMul(QMul(t1, t1), t1), Q(1))), b)

ease_in_out_cubic(t, b, c, d) ==
    LET t1 == QDiv(t, QDiv(d, Q(2)))
        t2 == QSub(t1, Q(2))
    IN IF QLess(t1, Q(1))
       THEN QAdd(QMul(QMul(QMul(QDiv(c, Q(2)), t1), t1), t1), b)
       ELSE QAdd(QMul(QDiv(c, Q(2)), QAdd(QMul(QMul(t2, t2), t2), Q(2))), b)

ease_in_quart(t, b, c, d) ==
    LET t1 == QDiv(t, d)
    IN QAdd(QMul(QMul(QMul(QMul(c, t1), t1), t1), t1), b)

ease_out_quart(t, b, c, d) ==
    LET t1 == QSub(QDiv(t, d), Q(1))
    IN QAdd(QMul(QNeg(c), QSub(QMul(QMul(QMul(t1, t1), t1), t1), Q(1))), b)

ease_in_out_quart(t, b, c, d) ==
    LET t1 == QDiv(t, QDiv(d, Q(2)))
        t2 == QSub(t1, Q(2))
    IN IF QLess(t1, Q(1))
       THEN QAdd(QMul(QMul(QMul(QMul(QDiv(c, Q(2)), t1), t1), t1), t1), b)
       ELSE QAdd(QMul(QDiv(QNeg(c), Q(2)),
                      QSub(QMul(QMul(QMul(t2, t2), t2), t2), Q(2))), b)

ease_in_quint(t, b, c, d) ==
    LET t1 == QDiv(t, d)
    IN QAdd(QMul(QMul(QMul(QMul(QMul(c, t1), t1), t1), t1), t1), b)

ease_out_quint(t, b, c, d) ==
    LET t1 == QSub(QDiv(t, d), Q(1))
    IN QAdd(QMul(c, QAdd(QMul(QMul(QMul(QMul(t1, t1), t1), t1), t1), Q(1))), b)

ease_in_out_quint(t, b, c, d) ==
    LET t1 == QDiv(t, QDiv(d, Q(2)))
        t2 == QSub(t1, Q(2))
    IN IF QLess(t1, Q(1))
       THEN QAdd(QMul(QMul(QMul(QMul(QMul(QDiv(c, Q(2)), t1), t1), t1), t1), t1), b)
       ELSE QAdd(QMul(QDiv(c, Q(2)),
                      QAdd(QMul(QMul(QMul(QMul(t2, t2), t2), t2), t2), Q(2))), b)

ease_in_sine(t, b, c, d) ==
    QAdd(QAdd(QMul(QNeg(c), CosQuarter(QDiv(t, d))), c), b)

ease_out_sine(t, b, c, d) ==
    QAdd(QMul(c, SinQuarter(QDiv(t, d))), b)

ease_in_out_sine(t, b, c, d) ==
    QAdd(QMul(QDiv(QNeg(c), Q(2)),
              QSub(CosQuarter(QMul(Q(2), QDiv(t, d))), Q(1))), b)

ease_in_expo(t, b, c, d) ==
    QAdd(QMul(c, Pow2(QMul(Q(10), QSub(QDiv(t, d), Q(1))))), b)

ease_out_expo(t, b, c, d) ==
    QAdd(QMul(c, QAdd(QNeg(Pow2(QDiv(QMul(Q(-10), t), d))), Q(1))), b)

ease_in_out_expo(t, b, c, d) ==
    LET t1 == QDiv(t, QDiv(d, Q(2)))
        t2 == QSub(t1, Q(1))
    IN IF QLess(t1, Q(1))
       THEN QAdd(QMul(QDiv(c, Q(2)), Pow2(QMul(Q(10), QSub(t1, Q(1))))), b)
       ELSE QAdd(QMul(QDiv(c, Q(2)),
                      QAdd(QNeg(Pow2(QMul(Q(-10), t2))), Q(2))), b)

ease_in_circ(t, b, c, d) ==
    LET t1 == QDiv(t, d)
    IN QAdd(QMul(QNeg(c), QSub(Sqrt(QSub(Q(1), QMul(t1, t1))), Q(1))), b)

ease_out_circ(t, b, c, d) ==
    LET t1 == QSub(QDiv(t, d), Q(1))
    IN QAdd(QMul(c, Sqrt(QSub(Q(1), QMul(t1, t1)))), b)

ease_in_out_circ(t, b, c, d) ==
    LET t1 == QDiv(t, QDiv(d, Q(2)))
        t2 == QSub(t1, Q(2))
    IN IF QLess(t1, Q(1))
       THEN QAdd(QMul(QDiv(QNeg(c), Q(2)),
                      QSub(Sqrt(QSub(Q(1), QMul(t1, t1))), Q(1))), b)
       ELSE QAdd(QMul(QDiv(c, Q(2)),
                      QAdd(Sqrt(QSub(Q(1), QMul(t2, t2))), Q(1))), b)

\* the elastic curves as the wrapper calls them, without a and p: p is
\* 0.3 * d (0.45 * d for in-out), a is c and s is p / 4; the angle of math.sin
\* is counted in quarter turns
ease_in_elastic(t, b, c, d) ==
    LET t1 == QDiv(t, d)
        p == QMul(d, <<3, 10>>)
        s == QDiv(p, Q(4))
        t2 == QSub(t1, Q(1))
    IN IF QEq(t, Q(0)) THEN b
       ELSE IF QEq(t1, Q(1)) THEN QAdd(b, c)
       ELSE QAdd(QNeg(QMul(QMul(c, Pow2(QMul(Q(10), t2))),
                      SinQuarter(QDiv(QMul(QSub(QMul(t2, d), s), Q(4)), p)))), b)

ease_out_elastic(t, b, c, d) ==
    LET t1 == QDiv(t, d)
        p == QMul(d, <<3, 10>>)
        s == QDiv(p, Q(4))
    IN IF QEq(t, Q(0)) THEN b
       ELSE IF QEq(t1, Q(1)) THEN QAdd(b, c)
       ELSE QAdd(QAdd(QMul(QMul(c, Pow2(QMul(Q(-10), t1))),
                      SinQuarter(QDiv(QMul(QSub(QMul(t1, d), s), Q(4)), p))), c), b)

ease_in_out_elastic(t, b, c, d) ==
    LET t1 == QDiv(t, QDiv(d, Q(2)))
        p == QMul(d, <<45, 100>>)
        s == QDiv(p, Q(4))
        t2 == QSub(t1, Q(1))
        wave == SinQuarter(QDiv(QMul(QSub(QMul(t2, d), s), Q(4)), p))
    IN IF QEq(t, Q(0)) THEN b
       ELSE IF QEq(t1, Q(2)) THEN QAdd(b, c)
       ELSE IF QLess(t1, Q(1))
       THEN QAdd(QMul(<<-1, 2>>, QMul(QMul(c, Pow2(QMul(Q(10), t2))), wave)), b)
       ELSE QAdd(QAdd(QMul(QMul(QMul(c, Pow2(QMul(Q(-10), t2))), wave),
                           <<1, 2>>), c), b)

\* tween_functions_lookup[name](t): the curve called as (t, 0, 1, 1)
normalize_easing(name, t) ==
    CASE name = "linear" -> <<linear(t[1]), t[2]>>
      [] name = "easeInQuad" -> ease_in_quad(t[1], t[2])
      [] name = "easeOutQuad" -> ease_out_quad(t[1], t[2])
      [] name = "easeInOutQuad" -> ease_in_out_quad(t, Q(0), Q(1), Q(1))
      [] name = "easeInCubic" -> ease_in_cubic(t, Q(0), Q(1), Q(1))
      [] name = "easeOutCubic" -> ease_out_cubic(t, Q(0), Q(1), Q(1))
      [] name = "easeInOutCubic" -> ease_in_out_cubic(t, Q(0), Q(1), Q(1))
      [] name = "easeInQuart" -> ease_in_quart(t, Q(0), Q(1), Q(1))
      [] name = "easeOutQuart" -> ease_out_quart(t, Q(0), Q(1), Q(1))
      [] name = "easeInOutQuart" -> ease_in_out_quart(t, Q(0), Q(1), Q(1))
      [] name = "easeInQuint" -> ease_in_quint(t, Q(0), Q(1), Q(1))
      [] name = "easeOutQuint" -> ease_out_quint(t, Q(0), Q(1), Q(1))
      [] name = "easeInOutQuint" -> ease_in_out_quint(t, Q(0), Q(1), Q(1))
      [] name = "easeInSine" -> ease_in_sine(t, Q(0), Q(1), Q(1))
      [] name = "easeOutSine" -> ease_out_sine(t, Q(0), Q(1), Q(1))
      [] name = "easeInOutSine" -> ease_in_out_sine(t, Q(0), Q(1), Q(1))
      [] name = "easeInExpo" -> ease_in_expo(t, Q(0), Q(1), Q(1))
      [] name = "easeOutExpo" -> ease_out_expo(t, Q(0), Q(1), Q(1))
      [] name = "easeInOutExpo" -> ease_in_out_expo(t, Q(0), Q(1), Q(1))
      [] name = "easeInCirc" -> ease_in_circ(t, Q(0), Q(1), Q(1))
      [] name = "easeOutCirc" -> ease_out_circ(t, Q(0), Q(1), Q(1))
      [] name = "easeInOutCirc" -> ease_in_out_circ(t, Q(0), Q(1), Q(1))
      [] name = "easeInElastic" -> ease_in_elastic(t, Q(0), Q(1), Q(1))
      [] name = "easeOutElastic" -> ease_out_elastic(t, Q(0), Q(1), Q(1))
      [] name = "easeInOutElastic" -> ease_in_out_elastic(t, Q(0), Q(1), Q(1))

\* the curves whose value at every tenth is an exact fraction; the others
\* (sine, circular, elastic) are exact at the two ends
ExactCurves ==
    {"linear", "easeInQuad", "easeOutQuad", "easeInOutQuad",
     "easeInCubic", "easeOutCubic", "easeInOutCubic",
     "easeInQuart", "easeOutQuart", "easeInOutQuart",
     "easeInQuint", "easeOutQuint", "easeInOutQuint",
     "easeInExpo", "easeOutExpo", "easeInOutExpo"}

EndCurves ==
    {"easeInSine", "easeOutSine", "easeInOutSine",
     "easeInCirc", "easeOutCirc", "easeInOutCirc",
     "easeInElastic", "easeOutElastic", "easeInOutElastic"}

\* the factor of the exponent in the exponential curves: at t = k / ExpoRate
\* the exponent is whole and math.pow(2, ...) is exact
ExpoRate == 10

CurvePoints(name) ==
    IF name \in ExactCurves
    THEN {<<k, ExpoRate>> : k \in 0..ExpoRate}
    ELSE {<<0, ExpoRate>>, <<ExpoRate, ExpoRate>>}

PyReal(q) == <<"real", q>>

\* the call tween_functions_lookup[name](t); a curve keeps no state, so one
\* call is made
CurveApply(name, t) ==
    /\ lastOp.op = "init"
    /\ lastOp' = [op |-> "ease", i |-> 0, ev |-> name, arg |-> t]
    /\ ret' = PyReal(normalize_easing(name, t))
    /\ UNCHANGED <<clock, tw, ls, calls, log, fired, group, coll, nonce,
                   legs, frac, hist, cyc, heard, ran, aside>>

CurveCall ==
    \E name \in ExactCurves \cup EndCurves :
        \E t \in CurvePoints(name) : CurveApply(name, t)

CurveInit ==
    /\ InitFrom(EmptyWorld)
    /\ group = <<>>
    /\ coll = <<>>

CurveNext == CurveCall

SpecCurves == CurveInit /\ [][CurveNext]_vars

\* ---------------------------------------------------------------- one Tween whose listeners inspect it
InspectConfigs == {<<3, 0, 0>>, <<1, 2, 0>>, <<2, 1, 1>>, <<1, 1, 2>>}

InspectInit ==
    /\ \E c \in InspectConfigs, easing \in {"linear", "easeOutQuad"} :
          InitFrom(NewTween(EmptyWorld, 1,
                            TweenProps(0, 100, c[1], easing, c[2], c[3]),
                            "look", "look", TRUE))
    /\ group = <<>>
    /\ coll = <<>>

InspectNext ==
    \/ Tick
    \/ Update(1)
    \/ Pause(1)
    \/ Unpause(1)

SpecInspect == InspectInit /\ [][InspectNext]_vars

\* ---------------------------------------------------------------- one ping-pong Tween
PingPongConfigs == {<<1, 2, 1>>, <<1, 1, 2>>, <<1, 0, -1>>, <<2, 1, 1>>, <<1, -1, 1>>}

PingPongInit ==
    /\ \E c \in PingPongConfigs :
          InitFrom(NewTween(EmptyWorld, 1,
                            TweenProps(0, 100, c[1], "linear", c[2], c[3]),
                            "update_callback", "complete_callback", TRUE))
    /\ group = <<>>
    /\ coll = <<>>

PingPongNext ==
    \/ Tick
    \/ Update(1)
    \/ Restart(1)
    \/ Pause(1)
    \/ Unpause(1)

SpecPingPong == PingPongInit /\ [][PingPongNext]_vars

\* ---------------------------------------------------------------- one Tween that repeats or ping-pongs for ever
EndlessConfigs == {<<1, -1, 0>>, <<1, 0, -1>>, <<1, -1, 1>>, <<2, -1, -1>>, <<1, 2, -1>>}

EndlessInit ==
    /\ \E c \in EndlessConfigs :
          InitFrom(NewTween(EmptyWorld, 1,
                            TweenProps(0, 100, c[1], "linear", c[2], c[3]),
                            "update_callback", "complete_callback", TRUE))
    /\ group = <<>>
    /\ coll = <<>>

EndlessNext ==
    \/ Tick
    \/ Update(1)
    \/ Restart(1)
    \/ Pause(1)
    \/ Unpause(1)

SpecEndless == EndlessInit /\ [][EndlessNext]_vars

\* ---------------------------------------------------------------- one Tween stopped by its own listener
HaltConfigs == {<<3, 0, 0>>, <<1, 2, 0>>, <<2, 1, 1>>, <<1, -1, 0>>}

HaltInit ==
    /\ \E c \in HaltConfigs :
          InitFrom(NewTween(EmptyWorld, 1,
                            TweenProps(0, 100, c[1], "linear", c[2], c[3]),
                            "update_callback", "complete_callback", TRUE))
    /\ group = <<>>
    /\ coll = <<>>

HaltNext ==
    \/ Tick
    \/ Update(1)
    \/ Start(1)
    \/ On(1, "update", "halt")

SpecHalt == HaltInit /\ [][HaltNext]_vars

\* ---------------------------------------------------------------- timer.Timer
\* Timer.__init__(timer, duration, loop)
Timer(duration, loop) ==
    [loop |-> loop, duration |-> duration, started_at |-> 0, paused_at |-> 0,
     pause_time |-> 0, is_running |-> FALSE, is_paused |-> FALSE]

Timer_stop(t) == IF ~t.is_running THEN t ELSE [t EXCEPT !.is_running = FALSE]

Timer_start(t, now) ==
    IF t.is_running THEN t
    ELSE [t EXCEPT !.started_at = now, !.pause_time = 0, !.is_running = TRUE]

Timer_pause(t, now) ==
    IF t.is_paused THEN t
    ELSE [t EXCEPT !.is_paused = TRUE, !.paused_at = now]

Timer_unpause(t, now) ==
    IF ~t.is_paused THEN t
    ELSE [t EXCEPT !.is_paused = FALSE, !.pause_time = @ + (now - t.paused_at)]

\* whether update() finds the countdown over
Timer_over(t, now) == now - t.started_at + t.pause_time >= t.duration

\* Timer.update with the Timer as Events object obj of w; the result is
\* the pair of the timer and the world
Timer_update(t, w, obj) ==
    IF ~t.is_running \/ t.is_paused THEN <<t, w>>
    ELSE IF Timer_over(t, w.now)
    THEN LET t1 == [t EXCEPT !.pause_time = 0]
             w1 == trigger(w, obj, "done", 0)
         IN IF w1.exc THEN <<t1, w1>>
            ELSE IF t1.loop THEN <<[t1 EXCEPT !.started_at = w.now], w1>>
            ELSE <<Timer_stop(t1), w1>>
    ELSE <<t, w>>

\* the caller's operations on one Timer with one listener of "done";
\* countdown.idle is the time the timer has been paused since it was started
CountdownCommit(t, idle, w, op) ==
    /\ countdown' = [timer |-> t, idle |-> idle]
    /\ calls' = w.calls
    /\ log' = w.log
    /\ lastOp' = op
    /\ UNCHANGED <<clock, ret, quiet, stats, given, items, callbacks,
                   timer_ids, handles>>

CountdownStart ==
    CountdownCommit(Timer_start(countdown.timer, clock),
                    IF countdown.timer.is_running THEN countdown.idle ELSE 0,
                    World(<<>>), Op("timer.start", 0))

CountdownPause ==
    CountdownCommit(Timer_pause(countdown.timer, clock), countdown.idle,
                    World(<<>>), Op("timer.pause", 0))

CountdownUnpause ==
    CountdownCommit(Timer_unpause(countdown.timer, clock), countdown.idle,
                    World(<<>>), Op("timer.unpause", 0))

CountdownUpdate ==
    LET r == Timer_update(countdown.timer, World(<<>>), 0) IN
    /\ CallsBelowCap
    /\ CountdownCommit(r[1],
                       IF r[1].started_at # countdown.timer.started_at THEN 0
                       ELSE countdown.idle,
                       r[2], Op("timer.update", 0))

CountdownTick ==
    /\ clock < MaxClock
    /\ clock' = clock + 1
    /\ countdown' = [countdown EXCEPT !.idle = IF countdown.timer.is_paused
                                               THEN @ + 1 ELSE @]
    /\ lastOp' = Op("tick", 0)
    /\ log' = <<>>
    /\ UNCHANGED <<calls, ret, quiet, stats, given, items, callbacks,
                   timer_ids, handles>>

CountdownConfigs == {<<2, FALSE>>, <<3, FALSE>>, <<2, TRUE>>}

CountdownInit ==
    /\ CoreInit(EvOn([EmptyWorld EXCEPT !.ls = DictSet(EmptyDict, 0, EmptyDict)],
                     0, "done", PlainCb("c")))
    /\ group = <<>>
    /\ coll = <<>>
    /\ stats = EmptyDict
    /\ given = [vals |-> <<>>, reset |-> FALSE]
    /\ items = EmptyDict
    /\ callbacks = <<>>
    /\ timer_ids = 0
    /\ handles = [issued |-> {}, cancelled |-> {}]
    /\ \E c \in CountdownConfigs :
          countdown = [timer |-> Timer(c[1], c[2]), idle |-> 0]

CountdownNext ==
    \/ CountdownTick
    \/ CountdownStart
    \/ CountdownPause
    \/ CountdownUnpause
    \/ CountdownUpdate

SpecCountdown == CountdownInit /\ [][CountdownNext]_vars

\* ---------------------------------------------------------------- one Tween the caller restarts
RestartConfigs == {<<1, 0, 0>>, <<1, 2, 0>>, <<2, 1, 0>>, <<2, 1, 1>>}

RestartInit ==
    /\ \E c \in RestartConfigs :
          InitFrom(NewTween(EmptyWorld, 1,
                            TweenProps(0, 100, c[1], "linear", c[2], c[3]),
                            "update_callback", "complete_callback", TRUE))
    /\ group = <<>>
    /\ coll = <<>>

RestartNext ==
    \/ Tick
    \/ Update(1)
    \/ Restart(1)
    \/ Pause(1)
    \/ Flip(1)

SpecRestart == RestartInit /\ [][RestartNext]_vars

\* ---------------------------------------------------------------- one Tween in a game loop
\* the caller's loop: a frame passes, of one or two milliseconds, then
\* update() is called; the loop ends with the tween, or when the clock
\* reaches Horizon
Horizon == MaxClock * MaxClock

Frame(n) ==
    /\ lastOp.op # "tick"
    /\ ~tw[1].is_completed
    /\ clock + n <= Horizon
    /\ clock' = clock + n
    /\ lastOp' = Op("tick", 0)
    /\ log' = <<>>
    /\ frac' = [i \in DOMAIN frac |-> -1]
    /\ UNCHANGED <<tw, ls, calls, fired, group, coll, nonce, legs, hist, cyc,
                   ret, heard, ran, aside>>

LoopConfigs == {<<1, 0, 0>>, <<2, 0, 0>>, <<1, 2, 0>>, <<1, 0, 1>>, <<2, 1, 1>>,
                <<1, 2, 1>>, <<1, 1, 2>>}

LoopInit ==
    /\ \E c \in LoopConfigs :
          InitFrom(NewTween(EmptyWorld, 1,
                            TweenProps(0, 100, c[1], "linear", c[2], c[3]),
                            "update_callback", "complete_callback", TRUE))
    /\ group = <<>>
    /\ coll = <<>>

LoopNext ==
    \/ \E n \in {1, 2} : Frame(n)
    \/ Update(1)

\* the loop goes on: a frame passes whenever one can, and update() is
\* called again and again.  After a frame Update(1) is enabled (it changes
\* lastOp) and nothing else is, so weak fairness of Update(1) is
\* []<>(lastOp.op = "update")
SpecLoop ==
    /\ LoopInit
    /\ [][LoopNext]_vars
    /\ WF_vars(\E n \in {1, 2} : Frame(n))
    /\ []<>(lastOp.op = "update")

\* ---------------------------------------------------------------- Tweens: pause, unpause, stop, reset
RECURSIVE PauseEach(_, _)
PauseEach(w, tweens) ==
    IF tweens = <<>> THEN w
    ELSE PauseEach(pause(w, Head(tweens)), Tail(tweens))

RECURSIVE UnpauseEach(_, _)
UnpauseEach(w, tweens) ==
    IF tweens = <<>> THEN w
    ELSE UnpauseEach(unpause(w, Head(tweens)), Tail(tweens))

\* Tweens.pause and Tweens.unpause; the result is the world and the list
TweensPause(w, tweens) == [w |-> PauseEach(w, tweens), tweens |-> tweens]

TweensUnpause(w, tweens) == [w |-> UnpauseEach(w, tweens), tweens |-> tweens]

\* Tweens.stop that empties the list without stopping the tweens
RECURSIVE TweensStop_drop_only(_, _)
TweensStop_drop_only(w, tweens) ==
    IF Len(tweens) > 0
    THEN TweensStop_drop_only(w, SubSeq(tweens, 1, Len(tweens) - 1))
    ELSE [w |-> w, tweens |-> tweens]

\* Tweens.stop: while the list is not empty, pop its last tween and stop it
RECURSIVE TweensStop(_, _)
TweensStop(w, tweens) ==
    IF Len(tweens) > 0
    THEN TweensStop(stop(w, tweens[Len(tweens)]),
                    SubSeq(tweens, 1, Len(tweens) - 1))
    ELSE [w |-> w, tweens |-> tweens]

TweensReset(w, tweens) == TweensStop(w, tweens)

CollApply(r, op) ==
    /\ coll # <<>>
    /\ Commit(r.w, Op(op, 0))
    /\ coll' = r.tweens
    /\ hist' = [k \in DOMAIN hist |-> "any"]
    /\ UNCHANGED <<clock, group, nonce, cyc>>

CollPause == CollApply(TweensPause(World(<<>>), coll), "tweens_pause")

CollUnpause == CollApply(TweensUnpause(World(<<>>), coll), "tweens_unpause")

CollStop == CollApply(TweensStop(World(<<>>), coll), "tweens_stop")

CollReset == CollApply(TweensReset(World(<<>>), coll), "tweens_reset")

\* the tweens are appended before the clock moves
CollControlNext ==
    \/ Tick
    \/ \E c \in {<<2, 1>>, <<1, 2>>} : clock = 0 /\ CollAppend(c[1], c[2])
    \/ CollUpdate
    \/ CollPause
    \/ CollUnpause
    \/ CollStop
    \/ CollReset

SpecTweensControl == CollInit /\ [][CollControlNext]_vars

\* ---------------------------------------------------------------- one Tween of several milliseconds
CycleConfigs == {<<3, 0, 0>>, <<2, 1, 1>>, <<2, 2, 0>>}

CycleInit ==
    /\ \E c \in CycleConfigs :
          InitFrom(NewTween(EmptyWorld, 1,
                            TweenProps(0, 100, c[1], "linear", c[2], c[3]),
                            "update_callback", "complete_callback", TRUE))
    /\ group = <<>>
    /\ coll = <<>>

CycleNext ==
    \/ Tick
    \/ Update(1)
    \/ Start(1)
    \/ Stop(1)
    \/ Restart(1)
    \/ Pause(1)
    \/ Unpause(1)
    \/ Flip(1)

SpecCycle == CycleInit /\ [][CycleNext]_vars

\* ---------------------------------------------------------------- claims on one Tween
Clamp(x, lo, hi) == Max(lo, Min(hi, x))

\* the tween was started by its constructor and the caller has called
\* nothing but update() on it
OnlyUpdated(i) == hist[i] = "update" /\ (tw[i].is_running \/ tw[i].is_completed)

C1Case == tw[1].props = TweenProps(0, 100, 3, "linear", 0, 0) /\ OnlyUpdated(1)

\* C1: a Tween 0 -> 100 with repeat=0, no ping-pong and linear easing, started
\* and never paused or stopped: the first update() made when the time since
\* start is >= duration sets value to 100 and is_completed to true, no
\* earlier update() completes it, and the 'complete' listener is invoked
\* exactly once over that call and all later update() calls.
C1_CompletesOnceAtDuration ==
    [][C1Case =>
        /\ calls'["complete_callback"] <= 1
        /\ tw'[1].is_completed =>
              tw'[1].value = 100 /\ calls'["complete_callback"] = 1
        /\ (lastOp'.op = "update" /\ clock - cyc[1].start >= tw[1].props.duration) =>
              tw'[1].is_completed
        /\ (~tw[1].is_completed /\ tw'[1].is_completed) =>
              /\ lastOp'.op = "update"
              /\ clock - cyc[1].start >= tw[1].props.duration
              /\ log'[Len(log')] = [cb |-> "complete_callback", obj |-> 1,
                                   ev |-> "complete", arg |-> 100]]_vars

C1_Witness ==
    /\ C1Case
    /\ tw[1].is_completed
    /\ lastOp.op = "update"
    /\ log = <<>>
    /\ calls["complete_callback"] = 1
    /\ tw[1].value = 100

\* C2 (as claimed): with finite repeat = N > 0 and no ping-pong, terminal
\* completion happens at the (N+1)-th cycle boundary and at no earlier one.
C2_CompletesAfterNPlusOneRuns ==
    \A i \in DOMAIN tw :
        (/\ tw[i].props.repeat > 0
         /\ tw[i].props.pingpong = 0
         /\ OnlyUpdated(i)
         /\ tw[i].is_completed) => legs[i] = tw[i].props.repeat + 1

\* C3: for a Tween with pingpong=1, the update() in which the reverse leg
\* reaches fraction 1 leaves value = from_value, the completed-ping-pong
\* counter at 0 and the direction forward.
C3_PingPongPairReturns ==
    [][\A i \in DOMAIN tw :
        (/\ tw[i].props.pingpong = 1
         /\ lastOp'.op = "update"
         /\ tw[i].direction = -1
         /\ legs'[i] = legs[i] + 1) =>
            /\ tw'[i].value = tw[i].props.from_value
            /\ tw'[i].pingpong = 0
            /\ tw'[i].direction = 1]_vars

C3_Witness ==
    /\ tw[1].props.pingpong = 1
    /\ hist[1] # "any"
    /\ lastOp.op = "update"
    /\ legs[1] = 2
    /\ tw[1].value = tw[1].props.from_value
    /\ tw[1].direction = 1
    /\ tw[1].pingpong = 0

\* C4: under pause(), unpause() and update() on a running Tween, an update()
\* outside a pause window computes the elapsed fraction
\* clamp((now - cycle start - time spent paused in this cycle) / duration, 0, 1),
\* and an update() inside a pause window computes nothing and changes nothing.
C4_PausedTimeNeverCounts ==
    [][\A i \in DOMAIN tw :
        (/\ hist'[i] # "any"
         /\ lastOp' = Op("update", i)
         /\ tw[i].is_running) =>
            IF cyc[i].pausing
            THEN frac'[i] = -1 /\ tw'[i] = tw[i]
            ELSE frac'[i] = Clamp(clock - cyc[i].start - cyc[i].paused,
                                  0, tw[i].props.duration)]_vars

C4_Witness ==
    /\ hist[1] = "pause"
    /\ lastOp.op = "update"
    /\ cyc[1].paused >= 2
    /\ ~cyc[1].pausing
    /\ frac[1] > 0
    /\ frac[1] < tw[1].props.duration

\* C5 (as claimed): in every state reachable by the public Tween operations,
\* is_completed implies not is_running.
C5_CompletedNotRunning ==
    \A i \in DOMAIN tw : tw[i].is_completed => ~tw[i].is_running

\* C9: stop() leaves is_running false and the tween without any event
\* subscription, whether or not it was running; and an operation invokes
\* only callbacks that are subscribed to the event when the operation
\* begins, so none that stop() removed unless it was subscribed again.
C9_StopSeversListeners ==
    [][/\ \A i \in DOMAIN tw :
            lastOp' = Op("stop", i) =>
                ~tw'[i].is_running /\ ls'[i] = EmptyDict
       /\ \A k \in 1..Len(log') :
            InSeq(Listeners(ls[log'[k].obj], log'[k].ev), PlainCb(log'[k].cb))]_vars

C9_Witness ==
    /\ hist[1] = "any"
    /\ lastOp.op = "update"
    /\ frac[1] >= tw[1].props.duration
    /\ ~tw[1].is_completed
    /\ ls[1] = EmptyDict
    /\ log = <<>>
    /\ calls["complete_callback"] = 0

\* C10: once is_completed is true it stays true under update(), start(),
\* stop(), pause(), unpause() and flip(), an update() in that state invokes
\* no listener and leaves value unchanged, and restart() clears it.
C10_CompletedIsTerminal ==
    [][\A i \in DOMAIN tw :
        tw[i].is_completed =>
            IF lastOp' = Op("restart", i)
            THEN ~tw'[i].is_completed
            ELSE /\ tw'[i].is_completed
                 /\ lastOp' = Op("update", i) =>
                        log' = <<>> /\ tw'[i].value = tw[i].value]_vars

C10_Witness ==
    /\ tw[1].is_completed
    /\ tw[1].is_running
    /\ "update" \in DOMAIN ls[1]
    /\ lastOp.op = "update"

\* C11: when is_paused is true, or is_completed is true, or is_running is
\* false, update() has no side effect: no field of the tween changes (so the
\* value it returns is the last computed one), no subscription changes and
\* no listener is invoked.
C11_IdleUpdateHasNoEffect ==
    [][\A i \in DOMAIN tw :
        (/\ lastOp' = Op("update", i)
         /\ (tw[i].is_paused \/ tw[i].is_completed \/ ~tw[i].is_running)) =>
            /\ tw' = tw
            /\ ls' = ls
            /\ calls' = calls
            /\ legs' = legs
            /\ log' = <<>>
            /\ frac'[i] = -1]_vars

\* an update() made on a paused, running tween whose clock has moved on
\* since the cycle started
C11_Witness ==
    /\ lastOp = Op("update", 1)
    /\ tw[1].is_paused
    /\ tw[1].is_running
    /\ ~tw[1].is_completed
    /\ clock > tw[1].start_time + tw[1].pause_duration
    /\ "update" \in DOMAIN ls[1]
    /\ log = <<>>

\* ---------------------------------------------------------------- claims on TweenGroup
GroupAllCompleted == \A k \in 1..Len(group) : tw[group[k]].is_completed

\* C6 (as claimed): the callback of TweenGroup.on('complete', cb) is invoked
\* exactly once, and only after every tween of the group has fired its own
\* 'complete'.
C6_GroupCallbackOnceAfterAll ==
    group # <<>> =>
        /\ calls["group_cb"] <= 1
        /\ calls["group_cb"] = 1 => GroupAllCompleted
        /\ GroupAllCompleted => calls["group_cb"] = 1

\* ---------------------------------------------------------------- claims on Tweens
Range(s) == {s[k] : k \in 1..Len(s)}

Pos(s, x) == CHOOSE k \in 1..Len(s) : s[k] = x

\* what update() alone does to tween i from the current state
Alone(i) == update(World(<<>>), i)

RECURSIVE LogsInOrder(_)
LogsInOrder(tweens) ==
    IF tweens = <<>> THEN <<>>
    ELSE Alone(Head(tweens)).log \o LogsInOrder(Tail(tweens))

\* C7: Tweens.update() updates every owned tween once, in insertion order,
\* each exactly as its own update() would, touches no other tween, and
\* then drops exactly the tweens that are completed, keeping the others in
\* their order: the size drops by the number of tweens that completed.
C7_TweensUpdateReapsCompleted ==
    [][lastOp'.op = "tweens_update" =>
        LET gone == {i \in Range(coll) : tw'[i].is_completed} IN
        /\ \A i \in Range(coll) : tw'[i] = Alone(i).tw[i] /\ ls'[i] = Alone(i).ls[i]
        /\ \A i \in (DOMAIN tw) \ Range(coll) : tw'[i] = tw[i] /\ ls'[i] = ls[i]
        /\ log' = LogsInOrder(coll)
        /\ Range(coll') = Range(coll) \ gone
        /\ Len(coll') = Len(coll) - Cardinality(gone)
        /\ \A a, b \in 1..Len(coll') :
              a < b => Pos(coll, coll'[a]) < Pos(coll, coll'[b])]_vars

C7_Witness ==
    /\ lastOp.op = "tweens_update"
    /\ Cardinality(DOMAIN tw) = 3
    /\ Len(coll) = 2
    /\ \A i \in DOMAIN tw : frac[i] >= 0
    /\ Cardinality({i \in DOMAIN tw : tw[i].is_completed}) = 1
    /\ \E i \in Range(coll) : tw[i].value > 0

\* ---------------------------------------------------------------- claims on Events
\* C8 (as claimed): emit(event, arg) invokes every callback subscribed to
\* the event at the moment of the emit, exactly once each, in subscription
\* order and with the given argument, also when a listener unsubscribes
\* itself during the fan-out.
C8_EmitReachesEverySubscriber ==
    [][lastOp'.op = "emit" =>
        LET subscribed == Listeners(ls[0], lastOp'.ev) IN
        log' = [k \in 1..Len(subscribed) |->
                  [cb |-> subscribed[k].id, obj |-> 0, ev |-> lastOp'.ev,
                   arg |-> lastOp'.arg]]]_vars

\* ---------------------------------------------------------------- more claims on one Tween
\* C12: pause() on a paused tween and unpause() on a tween that is not
\* paused change nothing: the pause timestamp and the accumulated pause
\* duration stay, no listener runs, and the update() that would come next
\* computes what it would have computed without the redundant call.
C12_RedundantPauseIsNoOp ==
    [][\A i \in DOMAIN tw :
        (\/ lastOp' = Op("pause", i) /\ tw[i].is_paused
         \/ lastOp' = Op("unpause", i) /\ ~tw[i].is_paused) =>
            /\ tw' = tw
            /\ ls' = ls
            /\ log' = <<>>
            /\ tw'[i].paused_at = tw[i].paused_at
            /\ tw'[i].pause_duration = tw[i].pause_duration
            /\ update([World(<<>>) EXCEPT !.tw = tw', !.ls = ls'], i).tw[i]
                   = Alone(i).tw[i]]_vars

\* a second pause() made later than the one that opened the pause window
C12_Witness ==
    /\ lastOp = Op("pause", 1)
    /\ tw[1].is_paused
    /\ tw[1].is_running
    /\ tw[1].paused_at > 0
    /\ tw[1].paused_at < clock

\* C13 (as claimed): start() on a tween that is running or completed is a
\* no-op: the start timestamp and the running/completed flags stay as they
\* were, and the update() that would come next computes what it would have
\* computed without the start().
C13_StartInInvalidPhaseIsNoOp ==
    [][\A i \in DOMAIN tw :
        (/\ lastOp' = Op("start", i)
         /\ (tw[i].is_running \/ tw[i].is_completed)) =>
            /\ tw'[i].start_time = tw[i].start_time
            /\ tw'[i].is_running = tw[i].is_running
            /\ tw'[i].is_completed = tw[i].is_completed
            /\ update([World(<<>>) EXCEPT !.tw = tw', !.ls = ls'], i).tw[i].value
                   = Alone(i).tw[i].value]_vars

\* what update() would do to tween i if it had been built with easing 'linear'
AloneLinear(i) ==
    update([World(<<>>) EXCEPT !.tw[i].props.easing = "linear"], i)

\* C14: get_tween resolves every name that is not in the lookup table to
\* the linear curve, and a tween built with such a name gets from every
\* update() the value (and the state) the same tween built with 'linear'
\* would get.
C14_UnknownEasingIsLinear ==
    [][\A i \in DOMAIN tw :
        (/\ lastOp' = Op("update", i)
         /\ tw[i].props.easing \notin DOMAIN tween_functions_lookup) =>
            /\ get_tween(tw[i].props.easing) = tween_functions_lookup["linear"]
            /\ tw'[i].value = AloneLinear(i).tw[i].value
            /\ tw'[i] = [AloneLinear(i).tw[i] EXCEPT
                            !.props.easing = tw[i].props.easing]
            /\ log' = AloneLinear(i).log]_vars

\* a tween with an unknown easing name, updated half way through its cycle
C14_Witness ==
    /\ lastOp = Op("update", 1)
    /\ tw[1].props.easing = "bounce"
    /\ tw[1].props.duration = 4
    /\ frac[1] = 2
    /\ tw[1].value = 50

\* ---------------------------------------------------------------- claims on lerp
\* C15 (as claimed): lerp(a, a, x) == a for every fraction x and every
\* shape of a: int, float, list, tuple, string, or any other value.
C15_LerpOfEqualEndsIsIdentity ==
    lastOp.op = "lerp" =>
        (lastOp.arg[1] = lastOp.arg[2] => ret = lastOp.arg[1])

\* a and b are two ints, two floats, or two lists or two tuples of the
\* same length whose corresponding elements are again such a pair
RECURSIVE NumericPair(_, _)
NumericPair(a, b) ==
    /\ TypeOf(a) = TypeOf(b)
    /\ \/ TypeOf(a) \in {"int", "float"}
       \/ /\ TypeOf(a) \in {"list", "tuple"}
          /\ Len(ValueOf(a)) = Len(ValueOf(b))
          /\ \A k \in 1..Len(ValueOf(a)) : NumericPair(ValueOf(a)[k], ValueOf(b)[k])

\* C16 (as claimed): lerp(a, b, 0) == a and lerp(a, b, 1) == b for ints,
\* floats, and equal-length lists and tuples of numbers, the result having
\* the length and the container type of a.
C16_LerpEndpoints ==
    (lastOp.op = "lerp" /\ NumericPair(lastOp.arg[1], lastOp.arg[2])) =>
        LET a == lastOp.arg[1]
            b == lastOp.arg[2]
            value == lastOp.arg[3]
        IN /\ value[1] = 0 => ret = a
           /\ value[1] = value[2] => ret = b

\* ---------------------------------------------------------------- more claims on TweenGroup
\* the invocations of the log lg are those of a relay that invokes the
\* group callback exactly when the last tween missing from h fires, and
\* then starts again from the empty set
RECURSIVE Conforms(_, _, _)
Conforms(h, lg, all) ==
    IF lg = <<>> THEN TRUE
    ELSE IF Head(lg).cb = "on_tween_fire"
         THEN IF h \cup {Head(lg).obj} = all
              THEN /\ Len(lg) >= 2
                   /\ lg[2].cb = "group_cb"
                   /\ Conforms({}, Tail(Tail(lg)), all)
              ELSE Conforms(h \cup {Head(lg).obj}, Tail(lg), all)
         ELSE FALSE

\* C17 (as claimed): the callback of TweenGroup.on('update', cb) runs once
\* per occurrence: not before every tween of the group has fired 'update'
\* since the previous invocation (or since the subscription), exactly when
\* the last missing tween fires, and the tracking then starts again, so
\* that one tween firing repeatedly never stands in for the others.
C17_GroupCallbackPerOccurrence ==
    [][lastOp'.op = "update" => Conforms(heard, log', Range(group))]_vars

\* C18: TweenGroup.is_complete is true if and only if every tween of the
\* group has is_completed true, in every reachable state: true for the
\* empty group, false again once a completed tween has been restarted.
C18_IsCompleteIffAllCompleted ==
    is_complete(World(<<>>), group) <=> GroupAllCompleted

\* a group of two completed tweens, one of which has just been restarted
C18_Witness ==
    /\ Len(group) = 2
    /\ lastOp = Op("restart", 1)
    /\ legs[1] >= 1
    /\ ~tw[1].is_completed
    /\ tw[2].is_completed
    /\ ~is_complete(World(<<>>), group)

\* ---------------------------------------------------------------- claims on raising listeners
\* the listeners dict d with every raising callback replaced by one that
\* returns normally
WellBehaved(d) ==
    [ev \in DOMAIN d |->
        [k \in DOMAIN d[ev] |->
            IF d[ev][k].id \in Raising THEN PlainCb("update_callback") ELSE d[ev][k]]]

\* what update() would do to tween i if none of its listeners raised
AloneWellBehaved(i) ==
    update([World(<<>>) EXCEPT !.ls[i] = WellBehaved(ls[i])], i)

\* a callback raised during the operation that led to the current state
Raised == \E k \in 1..Len(log) : log[k].cb \in Raising

\* C19 (as claimed): when an 'update' or 'complete' listener raises during
\* update(), the tween ends the call with the bookkeeping done: the value
\* snapped, the counters incremented, and the restart or the terminal
\* completion made, as in the same call with listeners that return.
C19_BookkeepingSurvivesRaise ==
    [][\A i \in DOMAIN tw :
        (lastOp' = Op("update", i) /\ Raised') =>
            tw'[i] = AloneWellBehaved(i).tw[i]]_vars

\* some listener of tween i raises
Broken(i) ==
    \E ev \in DOMAIN ls[i] : \E k \in DOMAIN ls[i][ev] : ls[i][ev][k].id \in Raising

\* C20 (as claimed): in Tweens.update(), a tween whose listener raises does
\* not affect its siblings: every other tween of the collection is advanced
\* once, as by its own update(), and every completed tween is removed.
C20_BrokenTweenSparesSiblings ==
    [][lastOp'.op = "tweens_update" =>
        /\ \A i \in Range(coll) : ~Broken(i) => tw'[i] = Alone(i).tw[i]
        /\ \A i \in Range(coll') : ~tw'[i].is_completed]_vars

\* ---------------------------------------------------------------- C21
\* the once_callback closure number k is in the listeners of some event
Subscribed(k) ==
    \E ev \in DOMAIN ls[0] : \E p \in 1..Len(ls[0][ev]) :
        ls[0][ev][p].kind = "once" /\ ls[0][ev][p].n = k

\* C21: a callback registered with once() runs at most once whatever is
\* emitted afterwards, also when it emits its own event again from inside
\* its body, and once it has run its registration is no longer among the
\* listeners
C21_OnceRunsAtMostOnce ==
    \A k \in DOMAIN ran : ran[k] <= 1 /\ (ran[k] = 1 => ~Subscribed(k))

\* an emit reached "a", then the re-entrant once() callback, whose inner
\* emit reached "a" a second time
C21_Witness ==
    /\ lastOp.op = "emit"
    /\ Len(log) = 3
    /\ log[1].cb = "a" /\ log[2].cb \in Reentrant /\ log[3].cb = "a"
    /\ \E k \in DOMAIN ran : ran[k] = 1

\* ---------------------------------------------------------------- C22
Without(lst, cb) == SelectSeq(lst, LAMBDA x : x # cb)

Count(lst, cb) == Len(lst) - Len(Without(lst, cb))

\* C22: off(event, cb) for a callback subscribed one time to the event
\* takes it out of the event's listeners and leaves every other listener
\* of that and of the other events in place; for an event or a callback that
\* is not subscribed it changes nothing; and an emit invokes only callbacks
\* that are subscribed to the event when it is made
C22_OffRemovesOnlyThatListener ==
    [][/\ lastOp'.op = "off" /\ lastOp'.arg # "" =>
            LET ev == lastOp'.ev
                cb == PlainCb(lastOp'.arg)
                before == Listeners(ls[0], ev)
            IN /\ Count(before, cb) = 1 =>
                     /\ Listeners(ls'[0], ev) = Without(before, cb)
                     /\ \A e \in EventNames \ {ev} :
                            Listeners(ls'[0], e) = Listeners(ls[0], e)
               /\ Count(before, cb) = 0 => ls' = ls
       /\ lastOp'.op = "emit" =>
            \A p \in 1..Len(log') :
                \E q \in 1..Len(Listeners(ls[0], lastOp'.ev)) :
                    Listeners(ls[0], lastOp'.ev)[q].id = log'[p].cb]_vars

\* off("update", a) has left another listener of the event and the
\* listeners of the other event subscribed
C22_Witness ==
    /\ lastOp.op = "off" /\ lastOp.arg = "a" /\ lastOp.ev = "update"
    /\ Count(Listeners(ls[0], "update"), PlainCb("a")) = 0
    /\ Count(Listeners(ls[0], "update"), PlainCb("b")) = 1
    /\ Count(Listeners(ls[0], "complete"), PlainCb("a")) = 1

\* ---------------------------------------------------------------- C23
\* C23: off(event) with no callback leaves the event without listeners and
\* the listeners of every other event as they were, and an emit of an event
\* without listeners invokes nothing
C23_OffEventRemovesItsListeners ==
    [][/\ lastOp'.op = "off" /\ lastOp'.arg = "" =>
            /\ Listeners(ls'[0], lastOp'.ev) = <<>>
            /\ \A e \in EventNames \ {lastOp'.ev} :
                   Listeners(ls'[0], e) = Listeners(ls[0], e)
       /\ lastOp'.op = "emit" /\ Listeners(ls[0], lastOp'.ev) = <<>> =>
            log' = <<>> /\ calls' = calls]_vars

\* off("update") has left the two listeners of "complete" subscribed
C23_Witness ==
    /\ lastOp.op = "off" /\ lastOp.arg = "" /\ lastOp.ev = "update"
    /\ "update" \notin DOMAIN ls[0]
    /\ Len(Listeners(ls[0], "complete")) = 2

\* ---------------------------------------------------------------- C24
\* C24: reset(), and off() with no event name, leave no listener of any
\* event, and while there is none an emit of any event invokes no callback
C24_ResetRemovesEveryListener ==
    [][/\ lastOp'.op \in {"reset", "off_all"} => ls'[0] = EmptyDict
       /\ lastOp'.op = "emit" /\ ls[0] = EmptyDict =>
            log' = <<>> /\ calls' = calls /\ ran' = ran]_vars

\* an emit made while nothing is subscribed, after a once() registration
\* was removed without ever having run
C24_Witness ==
    /\ lastOp.op = "emit"
    /\ ls[0] = EmptyDict
    /\ log = <<>>
    /\ nonce = 1 /\ ran[1] = 0

\* ---------------------------------------------------------------- C25
RECURSIVE SeqSum(_)
SeqSum(s) == IF s = <<>> THEN 0 ELSE Head(s) + SeqSum(Tail(s))

SeqMin(s) == CHOOSE x \in Range(s) : \A y \in Range(s) : x <= y

SeqMax(s) == CHOOSE x \in Range(s) : \A y \in Range(s) : x >= y

\* C25: an AppStat built with v0 and sampled with v1..vk, never reset, has
\* value vk, total_samples k + 1, min and max the least and the greatest of
\* v0..vk, and mean their arithmetic mean, which lies between min and max
C25_AppStatSummarisesItsSamples ==
    ~given.reset =>
        LET s == stats["test"]
            vs == given.vals
        IN /\ s.value = vs[Len(vs)]
           /\ s.total_samples = Len(vs)
           /\ s.min = SeqMin(vs)
           /\ s.max = SeqMax(vs)
           /\ s.mean[2] > 0
           /\ s.mean[1] * Len(vs) = SeqSum(vs) * s.mean[2]
           /\ s.min * s.mean[2] <= s.mean[1]
           /\ s.mean[1] <= s.max * s.mean[2]

\* three samples that differ, with a mean that is not a whole number and
\* a last value that is neither the least nor the greatest
C25_Witness ==
    /\ ~given.reset
    /\ Len(given.vals) = 3
    /\ stats["test"].min < stats["test"].value
    /\ stats["test"].value < stats["test"].max
    /\ stats["test"].mean[1] % stats["test"].mean[2] # 0

\* ---------------------------------------------------------------- C26
\* C26: once the caller has cancelled the id that set_interval returned,
\* no update() invokes the callback of that interval
C26_CancelledIntervalStaysSilent ==
    [][lastOp'.op = "timer_update" =>
          \A p \in 1..Len(log') : log'[p].obj \notin handles.cancelled]_vars

\* ---------------------------------------------------------------- C27
\* C27: whatever start, stop and reset calls came before, Stopwatch.stats
\* returns the AppStat of a stopwatch that exists and None for one that
\* does not, and never raises
C27_StatsNeverRaises ==
    lastOp.op = "stats" =>
        TypeOf(ret) = (IF lastOp.ev \in DOMAIN items THEN "AppStat"
                       ELSE "NoneType")

\* ---------------------------------------------------------------- C28
\* update() of tween i as it would go if the tween had been built with the
\* table name of the curve its easing function computes
AloneCurve(i) ==
    update([World(<<>>) EXCEPT !.tw[i].props.easing = CurveOf(@)], i)

\* C28: when the easing argument of a Tween is a function, update()
\* evaluates that function for the progress it interpolates with, so the
\* tween takes the values of the function's curve
C28_EasingFunctionIsEvaluated ==
    [][\A i \in DOMAIN tw :
        (/\ lastOp' = Op("update", i)
         /\ tw[i].props.easing \in EasingFunctions) =>
            tw'[i].value = AloneCurve(i).tw[i].value]_vars

\* ---------------------------------------------------------------- C29
\* the first n characters of s
FirstN(s, n) == SubSeq(s, 1, Max(0, Min(n, Len(s))))

\* C29 (as claimed): for strings a and b, lerp(a, b, f) is the first N
\* characters of b, where N = len(b) - trunc((len(b) - len(a)) * f)
C29_StringLerpKeepsEndLengthMinusScaledDiff ==
    (lastOp.op = "lerp" /\ TypeOf(lastOp.arg[1]) = "str"
                        /\ TypeOf(lastOp.arg[2]) = "str") =>
        LET a == ValueOf(lastOp.arg[1])
            b == ValueOf(lastOp.arg[2])
            f == lastOp.arg[3]
            N == Len(b) - Trunc((Len(b) - Len(a)) * f[1], f[2])
        IN ret = PyStr(FirstN(b, N))

\* ---------------------------------------------------------------- C30
Abs(n) == IF n >= 0 THEN n ELSE -n

\* C30: for ints a and b, lerp(a, b, f) is a plus the delta (b - a) * f with
\* its fractional part dropped: the step taken has the sign of the delta,
\* is no longer than it and is less than one short of it; hence for f in
\* [0, 1] the result lies between a and b and is never farther from a than
\* the exact value a + (b - a) * f
C30_IntLerpTruncatesTowardStart ==
    (lastOp.op = "lerp" /\ TypeOf(lastOp.arg[1]) = "int"
                        /\ TypeOf(lastOp.arg[2]) = "int") =>
        LET a == ValueOf(lastOp.arg[1])
            b == ValueOf(lastOp.arg[2])
            num == lastOp.arg[3][1]
            den == lastOp.arg[3][2]
            step == ValueOf(ret) - a
            delta == (b - a) * num
        IN /\ TypeOf(ret) = "int"
           /\ step * delta >= 0
           /\ Abs(step) * den <= Abs(delta)
           /\ Abs(delta) - Abs(step) * den < den
           /\ (0 <= num /\ num <= den) =>
                 /\ Min(a, b) <= ValueOf(ret)
                 /\ ValueOf(ret) <= Max(a, b)
                 /\ Abs(step) <= Abs(b - a)

\* lerp(3, 0, 0.5): the delta -1.5 is cut to -1, where rounding down would
\* give -2
C30_Witness ==
    /\ lastOp.op = "lerp"
    /\ TypeOf(lastOp.arg[1]) = "int" /\ ValueOf(lastOp.arg[1]) = 3
    /\ TypeOf(lastOp.arg[2]) = "int" /\ ValueOf(lastOp.arg[2]) = 0
    /\ lastOp.arg[3] = <<1, 2>>
    /\ TypeOf(ret) = "int" /\ ValueOf(ret) = 2

\* ---------------------------------------------------------------- C31
AtEnd(q) == lastOp.op = "ease" /\ QEq(lastOp.arg, q)

\* C31: every named curve in its normalized form gives 0 at t = 0 and 1 at
\* t = 1
C31_CurvesMeetBothEnds ==
    /\ AtEnd(Q(0)) => QEq(ValueOf(ret), Q(0))
    /\ AtEnd(Q(1)) => QEq(ValueOf(ret), Q(1))

\* the curves other than the exponential ones meet both ends
C31_OtherCurvesMeetBothEnds ==
    (lastOp.op = "ease" /\ lastOp.ev \notin {"easeInExpo", "easeOutExpo", "easeInOutExpo"})
        => C31_CurvesMeetBothEnds

C31_ExpoMissesEnd ==
    /\ AtEnd(Q(0))
    /\ lastOp.ev = "easeInExpo"
    /\ QEq(ValueOf(ret), <<1, 1024>>)

\* ---------------------------------------------------------------- C32
\* the update() call that has just performed the terminal completion of
\* tween 1 in front of its listeners
Completing ==
    /\ lastOp = Op("update", 1)
    /\ tw[1].is_completed
    /\ log # <<>>

\* the value update() interpolates at the end of the last leg: that leg
\* runs forward without ping-pong and in reverse with it
LastInterpolated ==
    LET p == tw[1].props
        tween_time == IF p.pingpong = 0 THEN p.duration ELSE 0
        tween_value == easing_func(get_tween(p.easing), tween_time, p.duration)
    IN lerp(p.from_value, p.to_value, tween_value[1], tween_value[2])

\* C32: on the update() call that performs terminal completion the
\* listeners hear "update" with the interpolated value, "update" with the
\* final value and "complete" with the final value, in this order, and each
\* of them still reads is_completed = FALSE and is_running = TRUE; the flags
\* change after the "complete" listeners have returned
C32_CompletionOrder ==
    Completing =>
        /\ Len(log) = 3
        /\ log[1].ev = "update" /\ log[1].arg = LastInterpolated
        /\ log[2].ev = "update" /\ log[2].arg = tw[1].value
        /\ log[3].ev = "complete" /\ log[3].arg = tw[1].value
        /\ \A k \in 1..3 : ~log[k].is_completed /\ log[k].is_running
        /\ ~tw[1].is_running

C32_Witness ==
    /\ Completing
    /\ tw[1].props.pingpong = 1
    /\ Len(log) = 3
    /\ log[3].ev = "complete"
    /\ ~log[3].is_completed
    /\ log[3].is_running

\* ---------------------------------------------------------------- C33
\* the legs tween 1 has finished, told from its counters: every increment
\* of the repeat counter stands for P forward+reverse pairs, every completed
\* ping-pong for one pair, and a tween heading back has finished one
\* forward leg more
LegsByCounters ==
    LET t == tw[1]
        P == t.props.pingpong
    IN (IF P > 0 THEN 2 * P * t.count ELSE 0) + 2 * t.pingpong
          + (IF t.direction = -1 THEN 1 ELSE 0)

PingPongCounters ==
    LET t == tw[1]
        P == t.props.pingpong
    IN /\ legs[1] = LegsByCounters
       /\ P > 0 => t.pingpong \in 0..(P - 1)
       /\ P = -1 => t.count = 0

\* an update() of tween 1 that ends a forward leg
ForwardLegEnds ==
    /\ lastOp' = Op("update", 1)
    /\ legs'[1] = legs[1] + 1
    /\ tw[1].direction = 1

ForwardLegStep ==
    ForwardLegEnds =>
        /\ tw'[1].direction = -1
        /\ tw'[1].start_time = clock
        /\ tw'[1].time = 0
        /\ tw'[1].is_running
        /\ tw'[1].count = tw[1].count
        /\ tw'[1].pingpong = tw[1].pingpong

RepeatCountStep ==
    tw'[1].count # tw[1].count =>
        /\ lastOp' = Op("update", 1)
        /\ tw'[1].count = tw[1].count + 1
        /\ tw[1].direction = -1
        /\ tw[1].pingpong + 1 = tw[1].props.pingpong
        /\ tw'[1].pingpong = 0

\* C33: with ping-pong enabled a forward leg that reaches the end only
\* flips the direction and restarts the cycle clock, leaving the repeat
\* counter and the completed-ping-pong counter alone; the repeat counter
\* grows only when a reverse leg exhausts the ping-pong count, so each of
\* its increments stands for exactly P forward+reverse pairs, and between
\* update() calls the completed-ping-pong counter is within 0..P-1
C33_PingPongCounting ==
    /\ []PingPongCounters
    /\ [][ForwardLegStep /\ RepeatCountStep]_vars

C33_Witness ==
    /\ tw[1].props.pingpong = 2
    /\ tw[1].count = 1
    /\ legs[1] = 4
    /\ tw[1].is_completed

\* ---------------------------------------------------------------- C34
Endless == tw[1].props.repeat = -1 \/ tw[1].props.pingpong = -1

NeverCompleted ==
    Endless =>
        /\ ~tw[1].is_completed
        /\ calls["complete_callback"] = 0
        /\ \A k \in 1..Len(log) : log[k].ev # "complete"

\* an update() of tween 1 that handles a cycle boundary
BoundaryStep ==
    /\ lastOp' = Op("update", 1)
    /\ legs'[1] > legs[1]

RunsOn ==
    (Endless /\ BoundaryStep) =>
        /\ tw'[1].is_running
        /\ tw'[1].start_time = clock
        /\ tw'[1].time = 0

\* C34: a Tween with repeat == -1 or pingpong == -1 never reaches terminal
\* completion through update(): after any number of cycle boundaries
\* "complete" has not been fired, is_completed is FALSE, and the tween is
\* running again after every boundary
C34_EndlessNeverCompletes ==
    /\ []NeverCompleted
    /\ [][RunsOn]_vars

C34_Witness ==
    /\ tw[1].props.repeat = -1
    /\ tw[1].props.pingpong = 0
    /\ lastOp = Op("update", 1)
    /\ tw[1].count = MaxClock
    /\ tw[1].is_running
    /\ InSeq(Listeners(ls[1], "complete"), PlainCb("complete_callback"))

\* ---------------------------------------------------------------- C35
\* the update() call of tween 1 during which an "update" listener called
\* stop() on it has returned
StoppedFromListener ==
    /\ lastOp = Op("update", 1)
    /\ \E k \in 1..Len(log) : log[k].cb \in Stopping

\* C35: when an update() call during which one of the tween's own "update"
\* listeners called stop() returns, the tween is not running, at a cycle
\* boundary with repeats or ping-pong legs remaining as anywhere else
C35_StopFromListenerSticks ==
    StoppedFromListener => ~tw[1].is_running

\* away from a cycle boundary the stop does hold
C35_StopInsideLegSticks ==
    (StoppedFromListener /\ legs[1] = 0) => ~tw[1].is_running

C35_RestartedAfterStop ==
    /\ StoppedFromListener
    /\ tw[1].is_running
    /\ tw[1].start_time = clock
    /\ tw[1].count = 1

\* ---------------------------------------------------------------- C36
\* the update() call about to return has emitted "done"
EmitsDone ==
    /\ lastOp' = Op("timer.update", 0)
    /\ \E k \in 1..Len(log') : log'[k].ev = "done"

\* the time the timer has counted down: the time since it was started
\* without the time it has spent paused
CountedDown == clock - countdown.timer.started_at - countdown.idle

\* C36: the time a Timer spends paused does not count toward the
\* countdown: update() emits "done" only when the time since start() less
\* the time spent paused since then has reached the duration
C36_PausedTimeNotCounted ==
    [][EmitsDone => CountedDown >= countdown.timer.duration]_vars

\* without any pause the countdown is exact
C36_UnpausedCountdown ==
    [][(EmitsDone /\ countdown.idle = 0 /\ countdown.timer.pause_time = 0)
          => CountedDown >= countdown.timer.duration]_vars

C36_DoneTooEarly ==
    /\ lastOp = Op("timer.update", 0)
    /\ log # <<>>
    /\ clock = 2
    /\ countdown.timer.started_at = 0
    /\ countdown.timer.duration = 3
    /\ countdown.idle = 1

\* ---------------------------------------------------------------- C37
RestartFrame ==
    lastOp' = Op("restart", 1) =>
        /\ tw'[1].time = 0
        /\ ~tw'[1].is_paused
        /\ tw'[1].pause_duration = 0
        /\ ~tw'[1].is_completed
        /\ tw'[1].is_running
        /\ tw'[1].value = IF tw[1].direction = 1 THEN tw[1].props.from_value
                          ELSE tw[1].props.to_value
        /\ tw'[1].direction = tw[1].direction
        /\ tw'[1].count = tw[1].count
        /\ tw'[1].pingpong = tw[1].pingpong

\* tween 1, with finite repeat and no ping-pong, has used up its repeats:
\* while it is not completed it has been restarted after its completion
RunsAgain ==
    /\ tw[1].props.repeat >= 0
    /\ tw[1].props.pingpong = 0
    /\ tw[1].count >= Max(tw[1].props.repeat, 1)

CompletedPlain ==
    /\ tw[1].props.repeat >= 0
    /\ tw[1].props.pingpong = 0
    /\ tw[1].is_completed

SecondRun ==
    (RunsAgain /\ lastOp' = Op("update", 1) /\ legs'[1] > legs[1]) =>
        /\ tw'[1].is_completed
        /\ legs'[1] = legs[1] + 1
        /\ tw'[1].count = tw[1].count + 1

\* C37: restart() clears the elapsed fraction, the paused flag, the
\* accumulated pause duration and the completed flag, sets running and
\* sets value to from_value (direction forward) or to_value (reverse),
\* and leaves direction, the repeat counter and the completed-ping-pong
\* counter as they are; so a completed Tween with finite repeat and no
\* ping-pong that the caller restarts completes again at the end of the
\* one cycle that follows
C37_RestartFrame ==
    /\ [](CompletedPlain => RunsAgain)
    /\ [][RestartFrame /\ SecondRun]_vars

C37_Witness ==
    /\ lastOp = Op("update", 1)
    /\ tw[1].props.repeat = 2
    /\ tw[1].count = 3
    /\ legs[1] = 3
    /\ tw[1].is_completed

\* ---------------------------------------------------------------- C38
LegsNeeded ==
    Max(tw[1].props.repeat, 1) * Max(2 * tw[1].props.pingpong, 1)

Owned == {coll[k] : k \in 1..Len(coll)}

PausesAll ==
    lastOp' = Op("tweens_pause", 0) =>
        /\ coll' = coll
        /\ \A i \in Owned :
              /\ tw'[i].is_paused
              /\ tw'[i].paused_at = IF tw[i].is_paused THEN tw[i].paused_at
                                    ELSE clock
        /\ \A i \in DOMAIN tw \ Owned : tw'[i] = tw[i]

UnpausesAll ==
    lastOp' = Op("tweens_unpause", 0) =>
        /\ coll' = coll
        /\ \A i \in Owned :
              /\ ~tw'[i].is_paused
              /\ tw'[i].pause_duration =
                    IF tw[i].is_paused
                    THEN tw[i].pause_duration + (clock - tw[i].paused_at)
                    ELSE tw[i].pause_duration
        /\ \A i \in DOMAIN tw \ Owned : tw'[i] = tw[i]

StopsAll ==
    lastOp'.op \in {"tweens_stop", "tweens_reset"} =>
        /\ coll' = <<>>
        /\ \A i \in Owned : ~tw'[i].is_running /\ ls'[i] = EmptyDict
        /\ \A i \in DOMAIN tw \ Owned : tw'[i] = tw[i]

LeavesTheRest ==
    lastOp' = Op("tweens_update", 0) =>
        \A i \in DOMAIN tw \ Owned : tw'[i] = tw[i] /\ legs'[i] = legs[i]

\* C39: Tweens.pause() and Tweens.unpause() pause and unpause every tween
\* the collection owns and leave its membership as it is; Tweens.stop()
\* and Tweens.reset() stop every tween the collection owns and leave it
\* empty, and Tweens.update() no longer advances the tweens that were
\* stopped this way
C39_TweensControl ==
    [][PausesAll /\ UnpausesAll /\ StopsAll /\ LeavesTheRest]_vars

C39_Witness ==
    /\ lastOp = Op("tweens_update", 0)
    /\ Cardinality(DOMAIN tw) = 3
    /\ Len(coll) = 1
    /\ \A i \in 1..2 : ~tw[i].is_running /\ ~tw[i].is_completed /\ tw[i].is_paused
    /\ tw[3].time > 0

\* ---------------------------------------------------------------- C40
\* Tween.time as the numerator tw[1].time over the duration
TimeInRange == tw[1].time \in 0..tw[1].props.duration

\* an update() of tween 1 inside a cycle: the caller has called nothing
\* but update(), pause() and unpause() so far, and this update() does not
\* end the cycle
UpdateInsideCycle ==
    /\ lastOp' = Op("update", 1)
    /\ hist'[1] # "any"
    /\ legs'[1] = legs[1]

\* C40: Tween.time is within [0, 1] in every reachable state, and inside
\* one cycle it does not decrease from one update() call to the next,
\* however pause() and unpause() are interleaved
C40_TimeInRangeAndMonotone ==
    /\ []TimeInRange
    /\ [][UpdateInsideCycle => tw'[1].time >= tw[1].time]_vars

C40_Witness ==
    /\ lastOp = Op("update", 1)
    /\ hist[1] = "pause"
    /\ tw[1].props.duration = 3
    /\ tw[1].pause_duration > 0
    /\ tw[1].time = 2
    /\ legs[1] = 0

====
